---- MODULE Spec2Model ----
(***************************************************************************)
(* Streaming response reassembly and session state of the AI console.      *)
(*                                                                         *)
(*   relay   backend/server.js          POST /api/generate/stream          *)
(*   framer  components/Playground.tsx  handleGenerateStream               *)
(*   turns   components/MainContent.tsx handleSubmit, edit "resend"        *)
(*   app     components/Playground.tsx  handleMessageSent and friends      *)
(*   store   lib/indexedDB.ts           saveConversations                  *)
(*                                                                         *)
(* Text is a sequence of characters, one string per character.  "E9" is    *)
(* the character U+00E9 (two bytes in UTF-8: xC3 xA9) and "FFFD" is the    *)
(* replacement character U+FFFD.  An ASCII character and its byte are the  *)
(* same string.  The empty sequence stands for JavaScript's "" and for     *)
(* undefined alike: the code only tests these values for truthiness.       *)
(***************************************************************************)
EXTENDS Integers, Sequences, FiniteSets, TLC

VARIABLES
  \* ---- one streamed turn (relay -> wire -> framer -> turn assembler)
  upstream,          \* the chunks result.stream has yielded; each a sequence of parts
  relayPc,           \* "idle" | "streaming" | "ended"
  collectedImages,   \* server.js collectedImages
  wire,              \* bytes written to the response so far
  wireEnded,         \* res.end() was called
  pos,               \* bytes of wire the client's reader has handed out
  readerDone,        \* reader.read() has reported done
  buffer,            \* handleGenerateStream: buffer
  currentDataLine,   \* handleGenerateStream: currentDataLine
  framerPc,          \* "idle" | "requesting" | "reading" | "returned" | "threw"
  events,            \* what the framer did with the parsed objects, in order
  fullResponse,      \* handleSubmit locals
  fullThinking,
  responseImages,
  transcript,        \* messages handed to onMessageSent during this turn
  loading,           \* Playground state
  isStreaming,       \* MainContent state
  \* ---- the conversation store (IndexedDB)
  store,             \* the records of the object store 'conversations'
  saveCalls,         \* the saveConversations calls in flight, in the order of
                     \* the transactions they wait for
  lastSave,          \* the list handed to the latest saveConversations call
  saveCount,         \* how many saveConversations calls were made
  evicted,           \* the ids cleanupOldConversations has deleted so far
  \* ---- Playground and MainContent across turns
  conversations,     \* Playground state
  currentConversationId,
  messages,
  streams,           \* the generations whose onGenerateStream call is pending
  pending,           \* the click handlers that wait for a FileReader
  now,               \* Date.now()
  lastEdit,          \* the edit that the latest step has applied, if it did
  \* ---- the server's handler of POST /api/generate/stream
  genAI,             \* server.js genAI is not null
  reqFiles,          \* req.files: the paths multer stored the attachments at
  reqPrompt,         \* req.body.prompt
  uploads,           \* the files of the directory uploads/
  handlerPc,         \* "idle" | "received" | "calling" | "streaming" | "returned"
  resStatus,         \* the status of the response, 0 while none is chosen
  resBody,           \* what the handler wrote to the response, by kind
  resClosed,         \* res.closed || res.destroyed
  chunkCount,        \* server.js chunkCount
  \* ---- the server's handler of POST /api/auth/login
  failedLoginAttempts, \* server.js failedLoginAttempts: the timestamps
  clock,             \* Date.now() of the server, in ms since the model starts
  comparing,         \* the login requests that await bcrypt.compare
  lastLogin,         \* what the latest step answered, if it was a step of a login
  lockout,           \* the latest 429 answer
  \* ---- the Next.js route that forwards POST /api/generate/stream
  proxyPc,           \* "idle" | "fetching" | "streaming" | "returned" | "closed"
  elapsed,           \* ms since the route started to forward the request
  timeoutId,         \* the timer of REQUEST_TIMEOUT is pending
  proxyStatus,       \* the status of the response the route returned, or 0
  relayed,           \* the chunks of the backend's body passed on so far
  \* ---- the same response without its heartbeat lines
  heartbeatAt,       \* the positions of wire that hold bytes of heartbeat lines
  plain,             \* the framer that is handed the other bytes of each chunk
  \* ---- a request to a protected endpoint of the server
  req,               \* its endpoint, its Authorization header, its files, its time
  guardPc,           \* "idle" | "received" | "authenticated" | "handling" |
                     \* "calling" | "answered"
  guardStatus,       \* the status of the response, 0 while there is none
  stored,            \* the files multer has written to uploads/
  upstreamCalls,     \* the calls to the generative model made for the request
  \* ---- what the stream endpoint hands to the generative model
  reqBody,           \* req.body: prompt, history, modelId and the thinking options
  reqUploads,        \* req.files: the content and the type of each attachment
  buildPc,           \* "idle" | "received" | "calling" | "rejected"
  callArgs,          \* the argument of model.generateContentStream
  \* ---- one call of saveConversations of the localStorage version of the sidebar
  lsConversations,   \* its argument, the array of the caller
  lsQuota,           \* the bytes localStorage takes under STORAGE_KEY
  lsDenied,          \* localStorage.setItem throws an error that is no quota error
  localStorage,      \* what STORAGE_KEY holds
  lsPc,              \* "idle" | "called" | "retry30" | "retry20" | "retry10" |
                     \* "clear" | "done"
  lsAttempts,        \* the values handed to localStorage.setItem, in order
  lsConsole          \* what the call wrote to the console

streamVars == <<upstream, relayPc, collectedImages, wire, wireEnded, pos,
                readerDone, buffer, currentDataLine, framerPc, events,
                fullResponse, fullThinking, responseImages, transcript,
                loading, isStreaming>>

storeVars == <<store, saveCalls, lastSave, saveCount>>

evictionVars == <<evicted>>

heartbeatVars == <<heartbeatAt, plain>>

guardVars == <<req, guardPc, guardStatus, stored, upstreamCalls>>

buildVars == <<reqBody, reqUploads, buildPc, callArgs>>

ladderVars == <<lsConversations, lsQuota, lsDenied, localStorage, lsPc,
                lsAttempts, lsConsole>>

sideVars == <<evictionVars, heartbeatVars, guardVars, buildVars, ladderVars>>

appVars == <<conversations, currentConversationId, messages, streams, pending,
             now, lastEdit>>

generateVars == <<genAI, reqFiles, reqPrompt, uploads, handlerPc, resStatus,
                  resBody, resClosed, chunkCount>>

authVars == <<failedLoginAttempts, clock, comparing, lastLogin, lockout>>

proxyVars == <<proxyPc, elapsed, timeoutId, proxyStatus, relayed>>

serverVars == <<generateVars, authVars, proxyVars>>

nonProxyVars == <<streamVars, storeVars, appVars, generateVars, authVars, sideVars>>

nonAuthVars == <<streamVars, storeVars, appVars, generateVars, proxyVars, sideVars>>

nonStreamVars == <<storeVars, appVars, serverVars, sideVars>>
nonStoreVars == <<streamVars, appVars, serverVars, sideVars>>
nonServerVars == <<streamVars, storeVars, appVars, sideVars>>

vars == <<streamVars, storeVars, appVars, serverVars, sideVars>>

\* ------------------------------------------------------------------ bounds

\* longest wire (in records) the framer specification draws
MaxRecords == 3
\* most parts an upstream response is made of, over all its chunks
MaxParts == 3
\* a read hands out at most this many bytes, or else all that have arrived
MaxChunkBytes == 2
\* most saveConversations calls the store specification makes
MaxSaves == 2
\* the handlers that read the clock run while it is below MaxNow
MaxNow == 7
\* most conversations the user keeps
MaxConversations == 2
\* most generations that are under way at a time
MaxGenerations == 2
\* the user acts while at most this many saveConversations calls are pending
MaxPendingSaves == 1

\* ------------------------------------------------------------ text helpers

NL == "\n"
Q == "\""
BS == "\\"

\* the concatenation of the sequences ss[lo..hi]
RECURSIVE ConcatRange(_, _, _)
ConcatRange(ss, lo, hi) ==
  IF lo > hi THEN <<>>
  ELSE IF lo = hi THEN ss[lo]
  ELSE LET mid == (lo + hi) \div 2
       IN ConcatRange(ss, lo, mid) \o ConcatRange(ss, mid + 1, hi)

Concat(ss) == ConcatRange(ss, 1, Len(ss))

\* the element of a one-element set
Only(S) == CHOOSE x \in S : TRUE

\* String.prototype.indexOf for a one-character needle, 1-based; 0 when absent
IndexOf(s, c) ==
  LET at == { i \in 1..Len(s) : s[i] = c }
  IN IF at = {} THEN 0 ELSE CHOOSE i \in at : \A j \in at : i <= j

StartsWith(s, p) == Len(s) >= Len(p) /\ SubSeq(s, 1, Len(p)) = p

Whitespace == {" ", NL}

\* String.prototype.trim() is truthy: some character is not white space
TrimTruthy(s) == \E i \in 1..Len(s) : s[i] \notin Whitespace

\* ---------------------------------------------------------- UTF-8 transport

\* Node's res.write(string): the UTF-8 encoding of the characters
Utf8Encode(s) ==
  Concat([i \in 1..Len(s) |-> IF s[i] = "E9" THEN <<"xC3", "xA9">> ELSE <<s[i]>>])

\* decoder.decode(value) without {stream: true}: every call starts in the
\* initial state and flushes at the end of the chunk.  A lead byte that the
\* chunk does not complete decodes to U+FFFD, and so does a continuation
\* byte that no lead byte of the same chunk precedes.
TextDecoderDecode(b) ==
  Concat([i \in 1..Len(b) |->
            IF b[i] = "xC3"
            THEN IF i < Len(b) /\ b[i + 1] = "xA9" THEN <<"E9">> ELSE <<"FFFD">>
            ELSE IF b[i] = "xA9"
            THEN IF i > 1 /\ b[i - 1] = "xC3" THEN <<>> ELSE <<"FFFD">>
            ELSE <<b[i]>>])

\* ------------------------------------------------------------------- JSON

EscapeChars(s) ==
  Concat([i \in 1..Len(s) |->
            CASE s[i] = Q  -> <<BS, Q>>
              [] s[i] = BS -> <<BS, BS>>
              [] s[i] = NL -> <<BS, "n">>
              [] OTHER     -> <<s[i]>>])

\* JSON.stringify of a string
JsonString(s) == <<Q>> \o EscapeChars(s) \o <<Q>>

JsonKey(k) == <<Q>> \o k \o <<Q, ":">>

KeyText     == JsonKey(<<"t", "e", "x", "t">>)
KeyThinking == JsonKey(<<"t", "h", "i", "n", "k", "i", "n", "g">>)
KeyImage    == JsonKey(<<"i", "m", "a", "g", "e">>)
KeyData     == JsonKey(<<"d", "a", "t", "a">>)
KeyMimeType == JsonKey(<<"m", "i", "m", "e", "T", "y", "p", "e">>)
KeyError    == JsonKey(<<"e", "r", "r", "o", "r">>)
KeyMessage  == JsonKey(<<"m", "e", "s", "s", "a", "g", "e">>)
KeyDetails  == JsonKey(<<"d", "e", "t", "a", "i", "l", "s">>)
KeyDone     == JsonKey(<<"d", "o", "n", "e">>)
LitTrue     == <<"t", "r", "u", "e">>

\* The records of the wire protocol, as JavaScript objects.  An absent
\* field is the empty sequence; done is a boolean.
NoRecord == [done |-> FALSE, error |-> <<>>, message |-> <<>>, details |-> <<>>,
             thinking |-> <<>>, text |-> <<>>, imageData |-> <<>>,
             imageMime |-> <<>>, hasImage |-> FALSE]

TextRecord(t)     == [NoRecord EXCEPT !.text = t]
ThinkingRecord(t) == [NoRecord EXCEPT !.thinking = t]
ImageRecord(d, m) == [NoRecord EXCEPT !.imageData = d, !.imageMime = m,
                                      !.hasImage = TRUE]
ErrorRecord(e, m, d) == [NoRecord EXCEPT !.error = e, !.message = m, !.details = d]
DoneRecord        == [NoRecord EXCEPT !.done = TRUE]

\* JSON.stringify of the object literals the relay writes.  A field whose
\* value is undefined (details without a stack) is left out.
JsonStringify(r) ==
  IF r.done THEN <<"{">> \o KeyDone \o LitTrue \o <<"}">>
  ELSE IF r.error # <<>>
  THEN <<"{">> \o KeyError \o JsonString(r.error)
       \o <<",">> \o KeyMessage \o JsonString(r.message)
       \o (IF r.details # <<>> THEN <<",">> \o KeyDetails \o JsonString(r.details)
                               ELSE <<>>)
       \o <<"}">>
  ELSE IF r.hasImage
  THEN <<"{">> \o KeyImage \o <<"{">> \o KeyData \o JsonString(r.imageData)
       \o <<",">> \o KeyMimeType \o JsonString(r.imageMime) \o <<"}", "}">>
  ELSE IF r.thinking # <<>>
  THEN <<"{">> \o KeyThinking \o JsonString(r.thinking) \o <<"}">>
  ELSE <<"{">> \o KeyText \o JsonString(r.text) \o <<"}">>

\* A JSON string literal starting at s[i]: its value and the index after
\* the closing quote.  A raw control character or the end of input inside
\* the literal is a syntax error.
RECURSIVE ScanString(_, _, _)
ScanString(s, i, acc) ==
  IF i > Len(s) THEN [ok |-> FALSE, val |-> <<>>, next |-> i]
  ELSE IF s[i] = Q THEN [ok |-> TRUE, val |-> acc, next |-> i + 1]
  ELSE IF s[i] = NL THEN [ok |-> FALSE, val |-> <<>>, next |-> i]
  ELSE IF s[i] = BS
       THEN IF i = Len(s) THEN [ok |-> FALSE, val |-> <<>>, next |-> i]
            ELSE IF s[i + 1] \in {Q, BS}
                 THEN ScanString(s, i + 2, Append(acc, s[i + 1]))
            ELSE IF s[i + 1] = "n" THEN ScanString(s, i + 2, Append(acc, NL))
            ELSE [ok |-> FALSE, val |-> <<>>, next |-> i]
  ELSE ScanString(s, i + 1, Append(acc, s[i]))

ParseString(s, i) ==
  IF i <= Len(s) /\ s[i] = Q THEN ScanString(s, i + 1, <<>>)
  ELSE [ok |-> FALSE, val |-> <<>>, next |-> i]

\* white space between tokens is insignificant to JSON.parse
RECURSIVE StripWs(_, _, _)
StripWs(s, i, inStr) ==
  IF i > Len(s) THEN <<>>
  ELSE IF inStr
       THEN IF s[i] = BS /\ i < Len(s)
            THEN <<s[i], s[i + 1]>> \o StripWs(s, i + 2, TRUE)
            ELSE <<s[i]>> \o StripWs(s, i + 1, s[i] # Q)
  ELSE IF s[i] \in Whitespace THEN StripWs(s, i + 1, FALSE)
  ELSE <<s[i]>> \o StripWs(s, i + 1, s[i] = Q)

LitAt(s, i, lit) ==
  i + Len(lit) - 1 <= Len(s) /\ SubSeq(s, i, i + Len(lit) - 1) = lit

\* {"<key>":"<string>"}
ParseOneString(s, key) ==
  LET open == <<"{">> \o key
      str  == ParseString(s, Len(open) + 1)
  IN IF LitAt(s, 1, open) /\ str.ok /\ str.next = Len(s) /\ s[Len(s)] = "}"
     THEN [ok |-> TRUE, val |-> str.val] ELSE [ok |-> FALSE, val |-> <<>>]

ParseImage(s) ==
  LET open == <<"{">> \o KeyImage \o <<"{">> \o KeyData
      d    == ParseString(s, Len(open) + 1)
      mid  == <<",">> \o KeyMimeType
      m    == ParseString(s, d.next + Len(mid))
  IN IF LitAt(s, 1, open) /\ d.ok /\ LitAt(s, d.next, mid) /\ m.ok
        /\ LitAt(s, m.next, <<"}", "}">>) /\ m.next + 1 = Len(s)
     THEN [ok |-> TRUE, rec |-> ImageRecord(d.val, m.val)]
     ELSE [ok |-> FALSE, rec |-> NoRecord]

ParseError(s) ==
  LET open == <<"{">> \o KeyError
      e    == ParseString(s, Len(open) + 1)
      mid  == <<",">> \o KeyMessage
      m    == ParseString(s, e.next + Len(mid))
      det  == <<",">> \o KeyDetails
      d    == ParseString(s, m.next + Len(det))
  IN IF LitAt(s, 1, open) /\ e.ok /\ LitAt(s, e.next, mid) /\ m.ok
     THEN IF m.next = Len(s) /\ s[Len(s)] = "}"
          THEN [ok |-> TRUE, rec |-> ErrorRecord(e.val, m.val, <<>>)]
          ELSE IF LitAt(s, m.next, det) /\ d.ok /\ d.next = Len(s) /\ s[Len(s)] = "}"
          THEN [ok |-> TRUE, rec |-> ErrorRecord(e.val, m.val, d.val)]
          ELSE [ok |-> FALSE, rec |-> NoRecord]
     ELSE [ok |-> FALSE, rec |-> NoRecord]

\* JSON.parse restricted to the object shapes of the wire protocol.
\* outcome "ok" carries the object; a syntax error is "retry" when V8's
\* message holds 'Unterminated' or 'Unexpected' and "other" otherwise.
\* V8 reports input that stops inside a value as "Unexpected end of JSON
\* input" or "Unterminated string in JSON"; the texts this model parses can
\* fail in no other way than by stopping early or by carrying extra text
\* ("Unexpected non-whitespace character after JSON"), both "retry".
ParseObject(s) ==
  LET t  == ParseOneString(s, KeyText)
      th == ParseOneString(s, KeyThinking)
      im == ParseImage(s)
      er == ParseError(s)
  IN IF s = JsonStringify(DoneRecord) THEN [outcome |-> "ok", data |-> DoneRecord]
     ELSE IF t.ok  THEN [outcome |-> "ok", data |-> TextRecord(t.val)]
     ELSE IF th.ok THEN [outcome |-> "ok", data |-> ThinkingRecord(th.val)]
     ELSE IF im.ok THEN [outcome |-> "ok", data |-> im.rec]
     ELSE IF er.ok THEN [outcome |-> "ok", data |-> er.rec]
     ELSE [outcome |-> "retry", data |-> NoRecord]

JsonParse(raw) == Only({ ParseObject(s) : s \in {StripWs(raw, 1, FALSE)} })

\* ------------------------------------------------- framer: handleGenerateStream

DataPrefix == <<"d", "a", "t", "a", ":", " ">>

NoImage == [data |-> <<>>, mimeType |-> <<>>]

\* one invocation of a callback handed to handleGenerateStream
Callback(cb, text, image) == [cb |-> cb, text |-> text, image |-> image]

\* The callbacks a parsed object triggers after the done and error tests:
\* thinking, then text, then image.  On a line that continues an earlier
\* one the thinking is only logged (relayThinking = FALSE).
Dispatch(data, relayThinking) ==
  (IF data.thinking # <<>> /\ relayThinking
     THEN <<Callback("onThinking", data.thinking, NoImage)>> ELSE <<>>)
  \o (IF data.text # <<>> THEN <<Callback("onChunk", data.text, NoImage)>> ELSE <<>>)
  \o (IF data.hasImage
        THEN <<Callback("onImage", <<>>,
                        [data |-> data.imageData, mimeType |-> data.imageMime])>>
        ELSE <<>>)

\* The framer between two awaits: f.buffer, f.cdl (currentDataLine),
\* f.status "reading" | "returned", and f.out, the callbacks invoked.  f.out
\* also records, as the entry "errorRecord", each Error object that was
\* built from an error record and thrown.
Framer(b, c) == [buffer |-> b, cdl |-> c, out |-> <<>>, status |-> "reading"]

ErrorOf(data) ==
  Callback("errorRecord", IF data.message # <<>> THEN data.message ELSE data.error,
           NoImage)

\* A successfully parsed object inside the try block of either branch.
\*   done : onComplete(); setLoading(false); return
\*   error: throw new Error(...) - thrown inside the try, so the catch of
\*          that same try receives it; it is no SyntaxError, the catch
\*          resets currentDataLine and the while loop goes on
OnParsed(f, rest, data, relayThinking) ==
  IF data.done
  THEN [f EXCEPT !.buffer = rest, !.cdl = <<>>, !.status = "returned",
                 !.out = Append(@, Callback("onComplete", <<>>, NoImage))]
  ELSE IF data.error # <<>>
  THEN [f EXCEPT !.buffer = rest, !.cdl = <<>>, !.out = Append(@, ErrorOf(data))]
  ELSE [f EXCEPT !.buffer = rest, !.cdl = <<>>,
                 !.out = @ \o Dispatch(data, relayThinking)]

\* ProcessLine with every line that is no data line taken as a continuation
ProcessLineMutant(f) ==
  LET newlineIndex == IndexOf(f.buffer, NL)
      line == SubSeq(f.buffer, 1, newlineIndex - 1)
      rest == SubSeq(f.buffer, newlineIndex + 1, Len(f.buffer))
  IN IF StartsWith(line, DataPrefix)
     THEN LET cdl == f.cdl \o SubSeq(line, Len(DataPrefix) + 1, Len(line))
          IN Only({ IF p.outcome = "ok" THEN OnParsed(f, rest, p.data, TRUE)
                    ELSE IF p.outcome = "retry"
                    THEN [f EXCEPT !.buffer = rest, !.cdl = cdl]
                    ELSE [f EXCEPT !.buffer = rest, !.cdl = <<>>]
                    : p \in {JsonParse(cdl)} })
     ELSE IF TRUE
     THEN LET cdl == f.cdl \o <<NL>> \o line
          IN Only({ IF p.outcome = "ok" THEN OnParsed(f, rest, p.data, FALSE)
                    ELSE [f EXCEPT !.buffer = rest, !.cdl = cdl]
                    : p \in {JsonParse(cdl)} })
     ELSE [f EXCEPT !.buffer = rest]

\* one iteration of while (buffer.includes(NL))
ProcessLine(f) ==
  LET newlineIndex == IndexOf(f.buffer, NL)
      line == SubSeq(f.buffer, 1, newlineIndex - 1)
      rest == SubSeq(f.buffer, newlineIndex + 1, Len(f.buffer))
  IN IF StartsWith(line, DataPrefix)
     THEN LET cdl == f.cdl \o SubSeq(line, Len(DataPrefix) + 1, Len(line))
          IN Only({ IF p.outcome = "ok" THEN OnParsed(f, rest, p.data, TRUE)
                    ELSE IF p.outcome = "retry"
                    THEN [f EXCEPT !.buffer = rest, !.cdl = cdl]
                    ELSE [f EXCEPT !.buffer = rest, !.cdl = <<>>]
                    : p \in {JsonParse(cdl)} })
     ELSE IF f.cdl # <<>>
     THEN LET cdl == f.cdl \o <<NL>> \o line
          IN Only({ IF p.outcome = "ok" THEN OnParsed(f, rest, p.data, FALSE)
                    ELSE [f EXCEPT !.buffer = rest, !.cdl = cdl]
                    : p \in {JsonParse(cdl)} })
     ELSE [f EXCEPT !.buffer = rest]

RECURSIVE DrainLines(_)
DrainLines(f) ==
  IF f.status # "reading" \/ IndexOf(f.buffer, NL) = 0 THEN f
  ELSE Only({ DrainLines(g) : g \in {ProcessLine(f)} })

\* buffer += decoder.decode(value), and the line loop that follows
OnChunk(b, c, bytes) ==
  Only({ DrainLines(f) : f \in {Framer(b \o TextDecoderDecode(bytes), c)} })

\* An Error object: message and the details property ((<<>>: not set)
JsError(m, d) == [message |-> m, details |-> d]
NoError == JsError(<<>>, <<>>)

DefaultFailure == <<"F", "A", "I", "L">>      \* the literal '生成失败'
StackText == <<"s", "t", "k">>                \* error.stack of a caught error

\* "处理最后剩余的数据": the code after the read loop.  thrown is the error
\* that leaves the inner try (NoError: none).
AfterParse(p) ==
  LET r == [out |-> <<>>, status |-> "returned", thrown |-> NoError, completed |-> FALSE]
  IN IF p.outcome # "ok"
     THEN \* SyntaxError: an Error whose message is not the default text
          [r EXCEPT !.status = "threw",
                    !.thrown = JsError(<<"S", "y", "n", "t", "a", "x">>, <<>>)]
     ELSE IF p.data.done
     THEN [r EXCEPT !.out = <<Callback("onComplete", <<>>, NoImage)>>,
                    !.completed = TRUE]
     ELSE IF p.data.error # <<>>
     THEN LET m == IF p.data.message # <<>> THEN p.data.message ELSE p.data.error
          IN IF m # DefaultFailure
             THEN [r EXCEPT !.status = "threw", !.out = <<ErrorOf(p.data)>>,
                            !.thrown = JsError(m, p.data.details)]
             ELSE [r EXCEPT !.out = <<ErrorOf(p.data)>>]
     ELSE [r EXCEPT !.out = Dispatch([p.data EXCEPT !.thinking = <<>>], FALSE)]

AfterLoop(c) ==
  IF c = <<>>
  THEN [out |-> <<>>, status |-> "returned", thrown |-> NoError, completed |-> FALSE]
  ELSE Only({ AfterParse(p) : p \in {JsonParse(c)} })

\* the outer catch of handleGenerateStream: an error that carries details
\* is rethrown as it is; any other gets its stack as details
OuterCatch(e) ==
  IF e.details # <<>> THEN e ELSE JsError(e.message, StackText)

\* ------------------------------------------------ turn assembler: handleSubmit

UserMessage(content) ==
  [role |-> "user", content |-> content, images |-> <<>>, thinking |-> <<>>]

\* onComplete: the assistant message that is saved
AssistantMessage(response, images, thinking) ==
  [role |-> "assistant", content |-> response, images |-> images,
   thinking |-> IF TrimTruthy(thinking) THEN thinking ELSE <<>>]

ErrorMarker == "[X]"        \* the prefix of an error turn's content
Fence == "~~~"         \* the code fence around the details

\* catch (error): the assistant message that reports it
ErrorMessage(e) ==
  [role |-> "assistant",
   content |-> <<ErrorMarker>> \o (IF e.message # <<>> THEN e.message ELSE DefaultFailure)
               \o (IF e.details # <<>>
                     THEN <<NL, NL, Fence, NL>> \o e.details \o <<NL, Fence>>
                     ELSE <<>>),
   images |-> <<>>, thinking |-> <<>>]

\* The locals of handleSubmit and what it handed to onMessageSent.
Turn(r, t, i, sent, streaming) ==
  [fullResponse |-> r, fullThinking |-> t, responseImages |-> i,
   sent |-> sent, isStreaming |-> streaming]

\* OnCallback with an onComplete that saves whatever was accumulated
OnCallbackMutant(a, ev) ==
  CASE ev.cb = "onChunk"    -> [a EXCEPT !.fullResponse = @ \o ev.text]
    [] ev.cb = "onThinking" -> [a EXCEPT !.fullThinking = @ \o ev.text]
    [] ev.cb = "onImage"    ->
         IF ev.image.data = <<>> \/ ev.image.mimeType = <<>> THEN a
         ELSE [a EXCEPT !.responseImages = Append(@, ev.image)]
    [] ev.cb = "errorRecord" -> a
    [] ev.cb = "onComplete" ->
         IF TRUE
         THEN [a EXCEPT !.isStreaming = FALSE,
                        !.sent = Append(@, AssistantMessage(a.fullResponse,
                                             a.responseImages, a.fullThinking))]
         ELSE [a EXCEPT !.isStreaming = FALSE]

\* one callback, as handleSubmit defines it
OnCallback(a, ev) ==
  CASE ev.cb = "onChunk"    -> [a EXCEPT !.fullResponse = @ \o ev.text]
    [] ev.cb = "onThinking" -> [a EXCEPT !.fullThinking = @ \o ev.text]
    [] ev.cb = "onImage"    ->
         IF ev.image.data = <<>> \/ ev.image.mimeType = <<>> THEN a
         ELSE [a EXCEPT !.responseImages = Append(@, ev.image)]
    [] ev.cb = "errorRecord" -> a
    [] ev.cb = "onComplete" ->
         IF a.fullResponse # <<>> \/ Len(a.responseImages) > 0 \/ a.fullThinking # <<>>
         THEN [a EXCEPT !.isStreaming = FALSE,
                        !.sent = Append(@, AssistantMessage(a.fullResponse,
                                             a.responseImages, a.fullThinking))]
         ELSE [a EXCEPT !.isStreaming = FALSE]

RECURSIVE Assemble(_, _)
Assemble(a, evs) ==
  IF evs = <<>> THEN a ELSE Assemble(OnCallback(a, Head(evs)), Tail(evs))

\* ---------------------------------------------- relay: POST /api/generate/stream

\* res.write(`data: ${JSON.stringify(record)}\n\n`), as bytes
SseRecord(r) == Utf8Encode(DataPrefix \o JsonStringify(r) \o <<NL, NL>>)

SseRecords(rs) == Concat([i \in 1..Len(rs) |-> SseRecord(rs[i])])

\* the parts of an upstream chunk (candidates[0].content.parts)
TextPart(t)     == [text |-> t, thought |-> FALSE, inlineData |-> NoImage]
ThoughtPart(t)  == [text |-> t, thought |-> TRUE, inlineData |-> NoImage]
ImagePart(d, m, th) == [text |-> <<>>, thought |-> th,
                        inlineData |-> [data |-> d, mimeType |-> m]]

RECURSIVE ThinkingTextOf(_)
\* thinkingText: the text of the parts with thought === true
ThinkingTextOf(parts) ==
  IF parts = <<>> THEN <<>>
  ELSE (IF Head(parts).thought /\ Head(parts).text # <<>> THEN Head(parts).text ELSE <<>>)
       \o ThinkingTextOf(Tail(parts))

RECURSIVE RegularTextOf(_)
\* regularText: the text of the parts with thought !== true
RegularTextOf(parts) ==
  IF parts = <<>> THEN <<>>
  ELSE (IF Head(parts).text # <<>> /\ ~Head(parts).thought THEN Head(parts).text ELSE <<>>)
       \o RegularTextOf(Tail(parts))

\* The records one upstream chunk makes the relay write at once: the
\* chunk's thinking text first, its regular text second.
ChunkRecordsMutant(parts) ==
  (IF ThinkingTextOf(parts) # <<>> THEN <<TextRecord(ThinkingTextOf(parts))>> ELSE <<>>)
  \o (IF RegularTextOf(parts) # <<>> THEN <<TextRecord(RegularTextOf(parts))>> ELSE <<>>)

ChunkRecords(parts) ==
  (IF ThinkingTextOf(parts) # <<>> THEN <<ThinkingRecord(ThinkingTextOf(parts))>> ELSE <<>>)
  \o (IF RegularTextOf(parts) # <<>> THEN <<TextRecord(RegularTextOf(parts))>> ELSE <<>>)

CollectedImage(inlineData, isThinkingImage) ==
  [data |-> inlineData.data, mimeType |-> inlineData.mimeType,
   isThinkingImage |-> isThinkingImage]

\* collectedImages.filter(img => !img.isThinkingImage)
FinalImagesOf(collected) == SelectSeq(collected, LAMBDA img : ~img.isThinkingImage)
ThinkingImagesOf(collected) == SelectSeq(collected, LAMBDA img : img.isThinkingImage)

RECURSIVE CollectImagesMutant(_, _)
CollectImagesMutant(collected, parts) ==
  IF parts = <<>> THEN collected
  ELSE LET part == Head(parts)
       IN CollectImagesMutant(
            IF part.inlineData = NoImage THEN collected
            ELSE Append(collected, CollectedImage(part.inlineData, FALSE)),
            Tail(parts))

RECURSIVE CollectImages(_, _)
\* A thinking image replaces the thinking images collected before it; an
\* image that is not tagged as thought is kept as a final image.
CollectImages(collected, parts) ==
  IF parts = <<>> THEN collected
  ELSE LET part == Head(parts)
       IN CollectImages(
            IF part.inlineData = NoImage THEN collected
            ELSE IF part.thought
            THEN Append(FinalImagesOf(collected), CollectedImage(part.inlineData, TRUE))
            ELSE Append(collected, CollectedImage(part.inlineData, FALSE)),
            Tail(parts))

\* imagesToSend, at the end of the upstream stream
ImagesToSend(collected) ==
  LET finalImages == FinalImagesOf(collected)
      thinkingImages == ThinkingImagesOf(collected)
  IN IF Len(finalImages) > 0 THEN finalImages
     ELSE IF Len(thinkingImages) > 0 THEN <<thinkingImages[Len(thinkingImages)]>>
     ELSE <<>>

RECURSIVE ImageRecords(_)
ImageRecords(imgs) ==
  IF imgs = <<>> THEN <<>>
  ELSE <<ImageRecord(Head(imgs).data, Head(imgs).mimeType)>> \o ImageRecords(Tail(imgs))

\* StreamEndRecords with the done record written ahead of the images
StreamEndRecordsMutant(collected) ==
  <<DoneRecord>> \o ImageRecords(ImagesToSend(collected))

\* what follows the for-await loop on an open response: imagesToSend, one
\* record each, then the done record
StreamEndRecords(collected) ==
  ImageRecords(ImagesToSend(collected)) \o <<DoneRecord>>

\* the error record of the catch blocks: constructor name, message, stack
UpstreamFailure == ErrorRecord(<<"E">>, <<"u", "p">>, StackText)

\* ------------------------------------------------------ inputs of a streamed turn

Prompt == <<"h", "i">>

\* the records a wire of the framer specification is made of
WireRecords ==
  { TextRecord(<<"a", "E9">>), ThinkingRecord(<<"p">>), ThinkingRecord(<<" ">>),
    ImageRecord(<<"1">>, <<"m">>),
    ErrorRecord(<<"E">>, <<"x">>, <<"s">>), DoneRecord }

SeqsUpTo(S, n) == UNION { [1..m -> S] : m \in 0..n }

\* the parts an upstream chunk is made of
PartKinds ==
  { TextPart(<<"a">>), ThoughtPart(<<"p">>),
    ImagePart(<<"1">>, <<"m">>, TRUE), ImagePart(<<"2">>, <<"m">>, TRUE),
    ImagePart(<<"3">>, <<"m">>, FALSE) }

PartsSoFar == Len(Concat(upstream))

\* what an HTTP error response makes generateAPI.generateStream throw
HttpFailure == JsError(<<"5", "0", "0">>, <<"b", "o", "d", "y">>)

ChunkSizes(avail) == { k \in 1..avail : k <= MaxChunkBytes \/ k = avail }

\* ----------------------------------------------------------------- relay actions

\* model.generateContentStream(...) resolves; the SSE headers are set
RelayApiCall ==
  /\ framerPc = "requesting" /\ relayPc = "idle"
  /\ relayPc' = "streaming"
  /\ UNCHANGED <<upstream, collectedImages, wire, wireEnded, pos, readerDone,
                 buffer, currentDataLine, framerPc, events, fullResponse,
                 fullThinking, responseImages, transcript, loading, isStreaming>>
  /\ UNCHANGED nonStreamVars

\* model.generateContentStream(...) rejects: the outer catch writes the
\* error record and the done record, and ends the response
RelayApiError ==
  /\ framerPc = "requesting" /\ relayPc = "idle"
  /\ relayPc' = "failed"
  /\ wire' = wire \o SseRecords(<<UpstreamFailure, DoneRecord>>)
  /\ wireEnded' = TRUE
  /\ UNCHANGED <<upstream, collectedImages, pos, readerDone,
                 buffer, currentDataLine, framerPc, events, fullResponse,
                 fullThinking, responseImages, transcript, loading, isStreaming>>
  /\ UNCHANGED nonStreamVars

\* one iteration of `for await (const chunk of result.stream)`
RelayChunk(parts) ==
  /\ relayPc = "streaming"
  /\ PartsSoFar + Len(parts) <= MaxParts
  /\ upstream' = Append(upstream, parts)
  /\ wire' = wire \o SseRecords(ChunkRecords(parts))
  /\ collectedImages' = CollectImages(collectedImages, parts)
  /\ UNCHANGED <<relayPc, wireEnded, pos, readerDone,
                 buffer, currentDataLine, framerPc, events, fullResponse,
                 fullThinking, responseImages, transcript, loading, isStreaming>>
  /\ UNCHANGED nonStreamVars

\* the upstream stream ends: the images, then the done record
RelayStreamEnd ==
  /\ relayPc = "streaming"
  /\ relayPc' = "ended"
  /\ wire' = wire \o SseRecords(StreamEndRecords(collectedImages))
  /\ wireEnded' = TRUE
  /\ UNCHANGED <<upstream, collectedImages, pos, readerDone,
                 buffer, currentDataLine, framerPc, events, fullResponse,
                 fullThinking, responseImages, transcript, loading, isStreaming>>
  /\ UNCHANGED nonStreamVars

\* iterating the upstream stream throws: catch (streamError)
RelayStreamError ==
  /\ relayPc = "streaming"
  /\ relayPc' = "failed"
  /\ wire' = wire \o SseRecords(<<UpstreamFailure, DoneRecord>>)
  /\ wireEnded' = TRUE
  /\ UNCHANGED <<upstream, collectedImages, pos, readerDone,
                 buffer, currentDataLine, framerPc, events, fullResponse,
                 fullThinking, responseImages, transcript, loading, isStreaming>>
  /\ UNCHANGED nonStreamVars

\* The connection is lost while the relay streams: res.closed || res.destroyed
\* makes the loop break, and neither the images nor the done record are
\* written.
RelayConnectionClosed ==
  /\ relayPc = "streaming"
  /\ relayPc' = "closed"
  /\ wireEnded' = TRUE
  /\ UNCHANGED <<upstream, collectedImages, wire, pos, readerDone,
                 buffer, currentDataLine, framerPc, events, fullResponse,
                 fullThinking, responseImages, transcript, loading, isStreaming>>
  /\ UNCHANGED nonStreamVars

\* ---------------------------------------------------------------- client actions

relayVars == <<upstream, relayPc, collectedImages, wire, wireEnded>>

\* handleSubmit up to the call of onGenerateStream, and handleGenerateStream
\* up to its first await.  Without a selected model handleGenerateStream
\* returns at once and handleSubmit's await completes normally.
Submit(hasModel) ==
  /\ framerPc = "idle" /\ ~loading /\ ~isStreaming
  /\ transcript' = Append(transcript, UserMessage(Prompt))
  /\ isStreaming' = TRUE
  /\ fullResponse' = <<>> /\ fullThinking' = <<>> /\ responseImages' = <<>>
  /\ IF hasModel THEN loading' = TRUE /\ framerPc' = "requesting"
                 ELSE loading' = loading /\ framerPc' = "returned"
  /\ UNCHANGED <<relayVars, pos, readerDone, buffer, currentDataLine, events>>
  /\ UNCHANGED nonStreamVars

\* generateAPI.generateStream resolves with the response: the reader is taken
RespondOk ==
  /\ framerPc = "requesting"
  /\ Len(wire) > 0 \/ wireEnded
  /\ framerPc' = "reading"
  /\ buffer' = <<>> /\ currentDataLine' = <<>>
  /\ UNCHANGED <<relayVars, pos, readerDone, events, fullResponse, fullThinking,
                 responseImages, transcript, loading, isStreaming>>
  /\ UNCHANGED nonStreamVars

\* what handleSubmit's catch does with the error e that handleGenerateStream's
\* outer catch has thrown
Catch(e) ==
  /\ loading' = FALSE
  /\ isStreaming' = FALSE
  /\ transcript' = Append(transcript, ErrorMessage(e))
  /\ framerPc' = "threw"

\* the response is not ok: generateStream throws an error with details
RespondHttpError ==
  /\ framerPc = "requesting"
  /\ Catch(OuterCatch(HttpFailure))
  /\ UNCHANGED <<relayVars, pos, readerDone, buffer, currentDataLine, events,
                 fullResponse, fullThinking, responseImages>>
  /\ UNCHANGED nonStreamVars

\* the callbacks of out, run against handleSubmit's locals
Deliver(out) ==
  \E a \in {Assemble(Turn(fullResponse, fullThinking, responseImages, transcript,
                          isStreaming), out)} :
     /\ events' = events \o out
     /\ fullResponse' = a.fullResponse
     /\ fullThinking' = a.fullThinking
     /\ responseImages' = a.responseImages
     /\ transcript' = a.sent
     /\ isStreaming' = a.isStreaming

\* reader.read() yields the next k bytes
ReadBytes(k) ==
  /\ framerPc = "reading"
  /\ k \in 1..(Len(wire) - pos)
  /\ \E f \in {OnChunk(buffer, currentDataLine, SubSeq(wire, pos + 1, pos + k))} :
        /\ buffer' = f.buffer
        /\ currentDataLine' = f.cdl
        /\ Deliver(f.out)
        /\ framerPc' = f.status
        /\ loading' = IF f.status = "returned" THEN FALSE ELSE loading
  /\ pos' = pos + k
  /\ UNCHANGED <<relayVars, readerDone>>

Read(k) == ReadBytes(k) /\ UNCHANGED nonStreamVars

\* reader.read() reports done: the loop is left and the remainder handled
ReadDone ==
  /\ framerPc = "reading"
  /\ wireEnded /\ pos = Len(wire)
  /\ readerDone' = TRUE
  /\ \E r \in {AfterLoop(currentDataLine)} :
        IF r.status = "threw"
        THEN /\ Catch(OuterCatch(r.thrown))
             /\ events' = events \o r.out
             /\ UNCHANGED <<fullResponse, fullThinking, responseImages>>
        ELSE /\ Deliver(r.out)
             /\ framerPc' = "returned"
             /\ loading' = IF r.completed THEN FALSE ELSE loading
  /\ UNCHANGED <<relayVars, pos, buffer, currentDataLine>>

ReadEnd == ReadDone /\ UNCHANGED nonStreamVars

\* ----------------------------------------------------------------- specifications

ClientIdle ==
  /\ pos = 0 /\ readerDone = FALSE /\ buffer = <<>> /\ currentDataLine = <<>>
  /\ framerPc = "idle" /\ events = <<>>
  /\ fullResponse = <<>> /\ fullThinking = <<>> /\ responseImages = <<>>
  /\ transcript = <<>> /\ loading = FALSE /\ isStreaming = FALSE

\* The framer and the turn assembler against a response that is any
\* sequence of valid records, cut into chunks at any byte.
StoreIdle ==
  /\ store = {} /\ saveCalls = <<>> /\ lastSave = <<>> /\ saveCount = 0
  /\ evicted = {}

NoId == 0          \* currentConversationId === null

NoEdit == [index |-> -1]

\* Playground before its mount effect
AppIdle ==
  /\ conversations = <<>> /\ currentConversationId = NoId /\ messages = <<>>
  /\ streams = <<>> /\ pending = <<>> /\ now = 1 /\ lastEdit = NoEdit

\* no request has reached the server
GenerateIdle ==
  /\ genAI = TRUE /\ reqFiles = <<>> /\ reqPrompt = <<>> /\ uploads = {}
  /\ handlerPc = "idle" /\ resStatus = 0 /\ resBody = <<>>
  /\ resClosed = FALSE /\ chunkCount = 0

NoLogin == [step |-> "none"]

NoLockout == [retryAfter |-> 0]

\* no login was attempted
AuthIdle ==
  /\ failedLoginAttempts = <<>> /\ clock = 0 /\ comparing = <<>>
  /\ lastLogin = NoLogin /\ lockout = NoLockout

\* the response carries no heartbeat line
HeartbeatIdle ==
  /\ heartbeatAt = {}
  /\ plain = [buffer |-> <<>>, cdl |-> <<>>, out |-> <<>>, status |-> "idle"]

NoRequest == [endpoint |-> "none"]

\* no request to a protected endpoint
GuardIdle ==
  /\ req = NoRequest /\ guardPc = "idle" /\ guardStatus = 0
  /\ stored = {} /\ upstreamCalls = 0

NoBody == [prompt |-> <<>>]

NoArgs == [contents |-> <<>>]

\* the stream endpoint has built no request for the model
BuildIdle ==
  /\ reqBody = NoBody /\ reqUploads = <<>> /\ buildPc = "idle" /\ callArgs = NoArgs

\* localStorage.getItem(STORAGE_KEY) === null
NoItem == [present |-> FALSE]

\* saveConversations of the localStorage version is not called
LadderIdle ==
  /\ lsConversations = <<>> /\ lsQuota = 0 /\ lsDenied = FALSE
  /\ localStorage = NoItem /\ lsPc = "idle" /\ lsAttempts = <<>>
  /\ lsConsole = <<>>

\* the route has no request
ProxyIdle ==
  /\ proxyPc = "idle" /\ elapsed = 0 /\ timeoutId = FALSE
  /\ proxyStatus = 0 /\ relayed = 0

ServerIdle == GenerateIdle /\ AuthIdle /\ ProxyIdle

InitFramer ==
  /\ HeartbeatIdle /\ GuardIdle /\ BuildIdle /\ LadderIdle
  /\ StoreIdle /\ AppIdle /\ ServerIdle
  /\ \E rs \in SeqsUpTo(WireRecords, MaxRecords) : wire = SseRecords(rs)
  /\ wireEnded = TRUE
  /\ upstream = <<>> /\ relayPc = "ended" /\ collectedImages = <<>>
  /\ ClientIdle

NextFramer ==
  \/ \E hasModel \in BOOLEAN : Submit(hasModel)
  \/ RespondOk
  \/ RespondHttpError
  \/ \E k \in ChunkSizes(Len(wire) - pos) : Read(k)
  \/ ReadEnd

SpecFramer == InitFramer /\ [][NextFramer]_vars

\* The relay, the framer and the turn assembler end to end.  The network
\* hands each read everything the relay has written so far.
InitRelay ==
  /\ HeartbeatIdle /\ GuardIdle /\ BuildIdle /\ LadderIdle
  /\ StoreIdle /\ AppIdle /\ ServerIdle
  /\ wire = <<>> /\ wireEnded = FALSE
  /\ upstream = <<>> /\ relayPc = "idle" /\ collectedImages = <<>>
  /\ ClientIdle

NextRelay ==
  \/ RelayApiCall
  \/ RelayApiError
  \/ \E parts \in SeqsUpTo(PartKinds, MaxParts) \ {<<>>} : RelayChunk(parts)
  \/ RelayStreamEnd
  \/ RelayStreamError
  \/ RelayConnectionClosed
  \/ Submit(TRUE)
  \/ RespondOk
  \/ Read(Len(wire) - pos)
  \/ ReadEnd

SpecRelay == InitRelay /\ [][NextRelay]_vars

\* ------------------------------------------------------- the streamed turn: claims

\* the turn is over: handleGenerateStream has returned or thrown
TurnOver == framerPc \in {"returned", "threw"}

\* the response body has been read, in part or to its end
ResponseRead == readerDone \/ pos > 0

\* the framer has parsed an error record
ErrorRecordReceived == \E i \in DOMAIN events : events[i].cb = "errorRecord"

\* onComplete has been invoked
Completed == \E i \in DOMAIN events : events[i].cb = "onComplete"

AssistantMessages == SelectSeq(transcript, LAMBDA m : m.role = "assistant")

IsErrorMessage(m) ==
  m.role = "assistant" /\ Len(m.content) > 0 /\ m.content[1] = ErrorMarker

\* the callbacks among the entries of a framer output
CallbacksOf(out) == SelectSeq(out, LAMBDA ev : ev.cb # "errorRecord")

\* what handleGenerateStream invokes when all bytes arrive in one chunk
SingleChunkCallbacks(bytes) ==
  LET f == OnChunk(<<>>, <<>>, bytes)
  IN CallbacksOf(IF f.status = "returned" THEN f.out
                 ELSE f.out \o AfterLoop(f.cdl).out)

\* C1: when the framer has received an error record, the turn ends with
\* exactly one assistant message, and that message is the error summary.
C1_ErrorRecordYieldsOneErrorMessage ==
  (TurnOver /\ ErrorRecordReceived)
    => /\ Len(AssistantMessages) = 1
       /\ IsErrorMessage(AssistantMessages[1])

\* C2: when the reader reports done and no done record has been parsed, the
\* turn ends with an assistant message, and every assistant message of the
\* turn is an error message.
C2_TruncatedStreamYieldsErrorMessage ==
  (TurnOver /\ readerDone /\ ~Completed)
    => /\ Len(AssistantMessages) >= 1
       /\ \A i \in DOMAIN AssistantMessages : IsErrorMessage(AssistantMessages[i])

\* C3: however the bytes of the response are cut into chunks, the callbacks
\* invoked are those invoked when all bytes arrive in one chunk, in the same
\* order and with the same payloads.
C3_ChunkingInvariance ==
  (TurnOver /\ ResponseRead) => CallbacksOf(events) = SingleChunkCallbacks(wire)

\* no callback is invoked after an error record has been parsed
NothingAfterError ==
  \A i \in DOMAIN events : events[i].cb = "errorRecord" => i = Len(events)

\* C4: once the framer has received an error record it dispatches no further
\* event and reads the stream no further.
C4_FramerStopsAtError ==
  [][ /\ NothingAfterError'
      /\ ErrorRecordReceived => (pos' = pos /\ readerDone' = readerDone) ]_vars

\* --------------------------------------------------------- the relayed turn: claims

\* every part the upstream stream has delivered, in order
UpstreamParts == Concat(upstream)

\* the images among the upstream parts, as the client receives an image
UpstreamImages(thought) ==
  LET tagged == SelectSeq(UpstreamParts,
                          LAMBDA part : part.inlineData # NoImage /\ part.thought = thought)
  IN [i \in 1..Len(tagged) |-> tagged[i].inlineData]

IsPrefix(s, t) == Len(s) <= Len(t) /\ SubSeq(t, 1, Len(s)) = s

\* the assistant messages of the transcript that are no error messages
PersistedAnswers == SelectSeq(AssistantMessages, LAMBDA m : ~IsErrorMessage(m))

\* C5: the text of the upstream parts flagged as thought reaches the thinking
\* accumulator and the thinking field of the persisted message and nothing
\* else; the text of the other parts reaches the response accumulator and
\* the content field and nothing else.
C5_ThinkingAndTextStayApart ==
  /\ IsPrefix(fullThinking, ThinkingTextOf(UpstreamParts))
  /\ IsPrefix(fullResponse, RegularTextOf(UpstreamParts))
  /\ \A i \in DOMAIN PersistedAnswers :
       /\ PersistedAnswers[i].content = RegularTextOf(UpstreamParts)
       /\ PersistedAnswers[i].thinking = ThinkingTextOf(UpstreamParts)

\* a streamed turn with thought text and regular text has been persisted
C5_Witness ==
  /\ relayPc = "ended" /\ TurnOver
  /\ Len(PersistedAnswers) = 1
  /\ PersistedAnswers[1].content # <<>>
  /\ PersistedAnswers[1].thinking # <<>>

\* C6: when the upstream stream has ended, a single final image is the one
\* image of the assembled message, whatever thinking-tagged images came
\* before or after it; without a final image the last thinking-tagged image
\* is the one image of the assembled message.
C6_ImageDeduplication ==
  (relayPc = "ended" /\ TurnOver) =>
    LET final == UpstreamImages(FALSE)
        thinking == UpstreamImages(TRUE)
    IN /\ (Len(final) = 1 /\ Len(thinking) >= 1) =>
            (Len(PersistedAnswers) = 1 /\ PersistedAnswers[1].images = final)
       /\ (Len(final) = 0 /\ Len(thinking) >= 1) =>
            /\ Len(PersistedAnswers) = 1
            /\ PersistedAnswers[1].images = <<thinking[Len(thinking)]>>

\* two thinking-tagged images and then a final image have been streamed, and
\* the turn is over
C6_Witness ==
  /\ relayPc = "ended" /\ TurnOver
  /\ Len(UpstreamImages(TRUE)) = 2 /\ Len(UpstreamImages(FALSE)) = 1
  /\ UpstreamParts[Len(UpstreamParts)].inlineData # NoImage
  /\ ~UpstreamParts[Len(UpstreamParts)].thought
  /\ Len(PersistedAnswers) = 1

\* ----------------------------------------------- conversation store: indexedDB.ts

\* A conversation as Sidebar.createConversation builds it and the handlers
\* of Playground update it.  createdAt is left out: nothing reads it while
\* updatedAt is set, and it always is.
Conversation(id, title, updatedAt, msgs) ==
  [id |-> id, title |-> title, updatedAt |-> updatedAt, messages |-> msgs]

DefaultTitle == <<"n", "e", "w">>        \* the literal '新会话'

\* the base64 text of an image of 60MB, as one character of the model
BigImageData == <<"BIG">>
BigImageBytes == 60 * 1024 * 1024

MAX_SIZE == 100 * 1024 * 1024

RECURSIVE SumOf(_)
SumOf(ns) == IF ns = <<>> THEN 0 ELSE Head(ns) + SumOf(Tail(ns))

\* calculateSize: the number of bytes of JSON.stringify(data).  The model
\* counts the characters of the strings a conversation holds and leaves
\* out the punctuation and the keys, a few bytes per message.
MessageSize(m) ==
  Len(m.content) + Len(m.thinking)
  + SumOf([i \in 1..Len(m.images) |->
             IF m.images[i].data = BigImageData THEN BigImageBytes
             ELSE Len(m.images[i].data)])

calculateSize(conv) ==
  Len(conv.title) + SumOf([i \in 1..Len(conv.messages) |-> MessageSize(conv.messages[i])])

\* loadConversations: index('updatedAt').getAll() yields the records by
\* ascending updatedAt and key; the stable sort that follows puts the most
\* recently updated first and keeps equal ones in key order.
RECURSIVE loadConversations(_)
loadConversations(st) ==
  IF st = {} THEN <<>>
  ELSE LET first == CHOOSE c \in st : \A d \in st :
                      \/ c.updatedAt > d.updatedAt
                      \/ c.updatedAt = d.updatedAt /\ c.id <= d.id
       IN <<first>> \o loadConversations(st \ {first})

\* [...conversations].sort((a, b) => a.updatedAt - b.updatedAt) of a loaded list
RECURSIVE OldestFirst(_)
OldestFirst(st) ==
  IF st = {} THEN <<>>
  ELSE LET first == CHOOSE c \in st : \A d \in st :
                      \/ c.updatedAt < d.updatedAt
                      \/ c.updatedAt = d.updatedAt /\ c.id <= d.id
       IN <<first>> \o OldestFirst(st \ {first})

\* store.put(conversation), keyPath 'id'
PutRecord(st, conv) == { c \in st : c.id # conv.id } \cup {conv}

DeleteRecordMutant(st, id) == st

\* store.delete(id)
DeleteRecord(st, id) == { c \in st : c.id # id }

IdsOf(list) == { list[i].id : i \in DOMAIN list }

TotalSize(st) ==
  LET loaded == loadConversations(st)
  IN SumOf([i \in 1..Len(loaded) |-> calculateSize(loaded[i])])

\* cleanupOldConversations: the ids it deletes, oldest first, until the
\* total computed from the list it loaded is within maxSize
RECURSIVE Victims(_, _, _)
Victims(sorted, totalSize, maxSize) ==
  IF sorted = <<>> \/ totalSize <= maxSize THEN <<>>
  ELSE <<Head(sorted).id>>
       \o Victims(Tail(sorted), totalSize - calculateSize(Head(sorted)), maxSize)

\* A saveConversations call between two of its awaits: pc names the
\* transaction it waits for, ids the ids it has still to delete, rest the
\* conversations it has still to put, resume what the caller that awaits
\* the call does next.
SaveCall(list, resume) ==
  [list |-> list, pc |-> "load", ids |-> <<>>, rest |-> <<>>, resume |-> resume]

\* the caller does not await the call
NoResume == [id |-> 0]

\* where the call goes once the ids to delete and the conversations to put
\* are known to be ids and rest
Proceed(call, ids, rest) ==
  [call EXCEPT !.ids = ids, !.rest = rest,
               !.pc = IF ids # <<>> THEN "delete"
                      ELSE IF rest # <<>> THEN "put" ELSE "size"]

\* The transaction the call waits for completes: its effect on the store
\* and the call up to its next await.
SaveStep(st, call) ==
  CASE call.pc = "load" ->
         LET existing == loadConversations(st)
             idsToDelete == SelectSeq([i \in 1..Len(existing) |-> existing[i].id],
                                      LAMBDA id : id \notin IdsOf(call.list))
         IN [store |-> st, call |-> Proceed(call, idsToDelete, call.list)]
    [] call.pc = "delete" ->
         [store |-> DeleteRecord(st, Head(call.ids)),
          call |-> Proceed(call, Tail(call.ids), call.rest)]
    [] call.pc = "put" ->
         [store |-> PutRecord(st, Head(call.rest)),
          call |-> Proceed(call, <<>>, Tail(call.rest))]
    [] call.pc = "size" ->
         [store |-> st,
          call |-> [call EXCEPT !.pc = IF TotalSize(st) > MAX_SIZE THEN "cleanup"
                                       ELSE "done"]]
    [] call.pc = "cleanup" ->
         LET victims == Victims(OldestFirst(st), TotalSize(st), MAX_SIZE)
         IN [store |-> st,
             call |-> [call EXCEPT !.ids = victims,
                                   !.pc = IF victims # <<>> THEN "evict" ELSE "done"]]
    [] call.pc = "evict" ->
         [store |-> DeleteRecord(st, Head(call.ids)),
          call |-> [call EXCEPT !.ids = Tail(@),
                                !.pc = IF Tail(call.ids) # <<>> THEN "evict"
                                       ELSE "done"]]

\* ------------------------------------------- conversations: Playground handlers

TitleLength == 30

Min(a, b) == IF a <= b THEN a ELSE b

\* The React state of Playground between two events, and calls: the
\* saveConversations calls the handlers of one event have made, in order.
AppState(convs, current, msgs) ==
  [conversations |-> convs, currentConversationId |-> current, messages |-> msgs,
   calls |-> <<>>]

\* handleNewConversation at time t
handleNewConversation(a, t) ==
  LET newConversation == Conversation(t, DefaultTitle, t, <<>>)
      updated == <<newConversation>> \o a.conversations
  IN [a EXCEPT !.conversations = updated,
               !.calls = Append(@, SaveCall(updated, NoResume)),
               !.currentConversationId = newConversation.id,
               !.messages = <<>>]

\* handleSelectConversation(id)
handleSelectConversation(a, id) ==
  LET found == SelectSeq(a.conversations, LAMBDA c : c.id = id)
  IN IF found = <<>> THEN a
     ELSE [a EXCEPT !.currentConversationId = id, !.messages = found[1].messages]

\* prevConversations.map(...) of the three handlers below: the conversation
\* whose id the handler's closure holds gets the new messages
WithMessages(convs, id, msgs, t, title) ==
  [i \in 1..Len(convs) |->
     IF convs[i].id = id
     THEN [convs[i] EXCEPT !.messages = msgs, !.updatedAt = t, !.title = title[i]]
     ELSE convs[i]]

TitlesOf(convs) == [i \in 1..Len(convs) |-> convs[i].title]

\* handleMessageSent(message) of the render in which currentConversationId
\* was current, at time t
handleMessageSent(a, current, message, t) ==
  IF current = NoId THEN a
  ELSE LET updatedMessages == Append(a.messages, message)
           title == [i \in 1..Len(a.conversations) |->
                       IF Len(a.conversations[i].messages) = 0 /\ message.role = "user"
                       THEN IF message.content = <<>> THEN DefaultTitle
                            ELSE SubSeq(message.content, 1,
                                        Min(TitleLength, Len(message.content)))
                       ELSE a.conversations[i].title]
           updated == WithMessages(a.conversations, current, updatedMessages, t, title)
       IN [a EXCEPT !.messages = updatedMessages,
                    !.conversations = updated,
                    !.calls = Append(@, SaveCall(updated, NoResume))]

\* Array.prototype.slice(0, end)
Slice(msgs, end) == SubSeq(msgs, 1, Min(end, Len(msgs)))

\* handleTruncateMessages(keepUntilIndex), indices counted from 0
handleTruncateMessages(a, current, keepUntilIndex, t) ==
  IF current = NoId THEN a
  ELSE LET truncatedMessages == Slice(a.messages, keepUntilIndex + 1)
           updated == WithMessages(a.conversations, current, truncatedMessages, t,
                                   TitlesOf(a.conversations))
       IN [a EXCEPT !.messages = truncatedMessages,
                    !.conversations = updated,
                    !.calls = Append(@, SaveCall(updated, NoResume))]

\* handleEditMessage(messageIndex, newContent, newImages) after its await
handleEditMessage(a, current, messageIndex, newContent, imageData, t) ==
  IF current = NoId THEN a
  ELSE LET at == messageIndex + 1
           updatedMessages ==
             IF at <= Len(a.messages) /\ a.messages[at].role = "user"
             THEN [a.messages EXCEPT ![at] =
                     [@ EXCEPT !.content = newContent,
                               !.images = IF Len(imageData) > 0 THEN imageData ELSE @]]
             ELSE a.messages
           updated == WithMessages(a.conversations, current, updatedMessages, t,
                                   TitlesOf(a.conversations))
       IN [a EXCEPT !.messages = updatedMessages,
                    !.conversations = updated,
                    !.calls = Append(@, SaveCall(updated, NoResume))]

\* updated.sort((a, b) => b.updatedAt - a.updatedAt): a stable sort
RECURSIVE NewestFirst(_)
NewestFirst(convs) ==
  IF convs = <<>> THEN <<>>
  ELSE LET best == CHOOSE i \in DOMAIN convs :
                     /\ \A j \in DOMAIN convs : convs[i].updatedAt >= convs[j].updatedAt
                     /\ \A j \in 1..(i - 1) : convs[j].updatedAt < convs[i].updatedAt
       IN <<convs[best]>>
          \o NewestFirst(SubSeq(convs, 1, best - 1) \o SubSeq(convs, best + 1, Len(convs)))

\* handleDeleteConversation(id) up to its await
handleDeleteConversation(a, id) ==
  LET updated == SelectSeq(a.conversations, LAMBDA c : c.id # id)
  IN [a EXCEPT !.conversations = updated,
               !.calls = Append(@, SaveCall(updated,
                                   [id |-> id, updated |-> updated,
                                    current |-> a.currentConversationId,
                                    aliased |-> TRUE]))]

\* handleDeleteConversation after its await.  The sort is in place: it
\* reorders the conversations state when that still is the array updated
\* (aliased: no setConversations has replaced the array since).
AfterDelete(a, resume, t) ==
  IF resume.current # resume.id THEN a
  ELSE IF Len(resume.updated) > 0
  THEN LET sorted == NewestFirst(resume.updated)
       IN [a EXCEPT !.conversations = IF resume.aliased THEN sorted ELSE @,
                    !.currentConversationId = sorted[1].id,
                    !.messages = sorted[1].messages]
  ELSE handleNewConversation(a, t)

\* ------------------------------------------------------------------ store actions

\* saveConversations is called for each of calls: each call runs up to its
\* first transaction
IssueSaves(queue, calls) ==
  /\ saveCalls' = queue \o calls
  /\ lastSave' = IF calls = <<>> THEN lastSave ELSE calls[Len(calls)].list
  /\ saveCount' = saveCount + Len(calls)

\* ------------------------------------------------------- the store specification

StoreMessage(content, imageData) ==
  [role |-> "user", content |-> content,
   images |-> IF imageData = <<>> THEN <<>>
              ELSE <<[data |-> imageData, mimeType |-> <<"m">>]>>,
   thinking |-> <<>>]

\* the conversations the callers of the store specification hand over: two
\* ids, each in an older and a newer version
StoredVersions ==
  { Conversation(1, <<"a">>, 1, <<StoreMessage(<<"q">>, <<>>)>>),
    Conversation(1, <<"a">>, 3, <<StoreMessage(<<"q">>, <<>>),
                                  StoreMessage(<<"r">>, BigImageData)>>),
    Conversation(2, <<"b">>, 2, <<StoreMessage(<<"s">>, BigImageData)>>),
    Conversation(2, <<"b">>, 4, <<StoreMessage(<<"s">>, <<>>)>>) }

\* the lists of distinct conversations
SaveLists ==
  { list \in SeqsUpTo(StoredVersions, 2) :
      \A i, j \in DOMAIN list : list[i].id = list[j].id => i = j }

\* setConversations has replaced the array: the calls that wait in
\* handleDeleteConversation no longer hold the state's array
Unalias(queue) ==
  [i \in 1..Len(queue) |->
     IF queue[i].resume = NoResume THEN queue[i]
     ELSE [queue[i] EXCEPT !.resume.aliased = FALSE]]

\* The state updates of one event take effect and its saveConversations
\* calls join queue, the calls already pending.
Commit(a, queue) ==
  /\ conversations' = a.conversations
  /\ currentConversationId' = a.currentConversationId
  /\ messages' = a.messages
  /\ IssueSaves(IF a.calls = <<>> THEN queue ELSE Unalias(queue), a.calls)

\* The oldest pending transaction completes.  IndexedDB runs the
\* transactions on one object store in the order they were created; the
\* call that owns the completed one creates its next, behind the others.
\* When the call is complete, the handler that awaits it continues.
TransactionCompletes ==
  /\ saveCalls # <<>>
  /\ \E r \in {SaveStep(store, Head(saveCalls))} :
        /\ store' = r.store
        /\ IF r.call.pc = "done" /\ r.call.resume # NoResume
           THEN \E a \in {AfterDelete(AppState(conversations, currentConversationId,
                                               messages), r.call.resume, now)} :
                   /\ Commit(a, Tail(saveCalls))
                   /\ now' = IF a.calls = <<>> THEN now ELSE now + 1
           ELSE /\ saveCalls' = IF r.call.pc = "done" THEN Tail(saveCalls)
                                ELSE Append(Tail(saveCalls), r.call)
                /\ UNCHANGED <<lastSave, saveCount, conversations,
                               currentConversationId, messages, now>>
  /\ evicted' = IF Head(saveCalls).pc = "evict"
                THEN evicted \cup {Head(Head(saveCalls).ids)}
                ELSE evicted
  /\ lastEdit' = NoEdit
  /\ UNCHANGED <<streams, pending>>
  /\ UNCHANGED <<streamVars, serverVars, heartbeatVars, guardVars, buildVars,
                 ladderVars>>

StreamIdle ==
  /\ wire = <<>> /\ wireEnded = FALSE
  /\ upstream = <<>> /\ relayPc = "idle" /\ collectedImages = <<>>
  /\ ClientIdle

\* what the object store can hold when the page is opened
StoreContents ==
  { st \in SUBSET StoredVersions : \A c, d \in st : c.id = d.id => c = d }

InitStore ==
  /\ HeartbeatIdle /\ GuardIdle /\ BuildIdle /\ LadderIdle
  /\ StreamIdle /\ AppIdle /\ ServerIdle
  /\ store \in StoreContents
  /\ saveCalls = <<>> /\ lastSave = <<>> /\ saveCount = 0
  /\ evicted = {}

\* some caller calls saveConversations(list) and does not await it
Save(list) ==
  /\ saveCount < MaxSaves
  /\ IssueSaves(saveCalls, <<SaveCall(list, NoResume)>>)
  /\ UNCHANGED store
  /\ UNCHANGED nonStoreVars

NextStore ==
  \/ \E list \in SaveLists : Save(list)
  \/ TransactionCompletes

SpecStore == InitStore /\ [][NextStore]_vars

\* ------------------------------------------------------------- the store: claims

\* every saveConversations call has completed
StoreQuiet == saveCalls = <<>>

\* C9: once all saveConversations calls have completed, the store holds
\* exactly the conversations of the list handed to the latest call, with
\* that list's contents - however the calls overlapped.
C9_LastWriterWins ==
  (StoreQuiet /\ saveCount >= 2
     /\ SumOf([i \in 1..Len(lastSave) |-> calculateSize(lastSave[i])]) <= MAX_SIZE)
    => store = { lastSave[i] : i \in DOMAIN lastSave }

\* ------------------------------------------------- conversations: specification

EditedContent == <<"e", "d">>

\* the attachments of a message after FileReader has read them, 60MB of
\* base64 text, as one image of the model
AttachedImage == [data |-> BigImageData, mimeType |-> <<"m">>]

\* the response bodies of the conversations specification
AppResponses ==
  { SseRecords(<<TextRecord(<<"o", "k">>), DoneRecord>>),
    SseRecords(<<DoneRecord>>),
    SseRecords(<<TextRecord(<<"o", "k">>)>>),
    SseRecords(<<ErrorRecord(<<"E">>, <<"x">>, <<"s">>), DoneRecord>>) }

\* handleGenerateStream from the first read to its end, for a response that
\* arrives in one chunk: the callbacks it invokes, the error it throws
\* (NoError: it returns) and whether it has called setLoading(false)
EndOfResponse(f, r) ==
  IF f.status = "returned"
  THEN [out |-> f.out, thrown |-> NoError, idle |-> TRUE]
  ELSE IF r.status = "threw"
  THEN [out |-> f.out \o r.out, thrown |-> OuterCatch(r.thrown), idle |-> TRUE]
  ELSE [out |-> f.out \o r.out, thrown |-> NoError, idle |-> r.completed]

WholeResponse(bytes) ==
  Only({ EndOfResponse(f, AfterLoop(f.cdl)) : f \in {OnChunk(<<>>, <<>>, bytes)} })

\* how an onGenerateStream call can end
StreamResults ==
  { WholeResponse(b) : b \in AppResponses }
    \cup { [out |-> <<>>, thrown |-> OuterCatch(HttpFailure), idle |-> TRUE] }

\* a generation: conv is the currentConversationId of the render whose
\* onMessageSent its callbacks call; prompt and history are the arguments
\* of onGenerateStream
Generation(conv, prompt, history) ==
  [conv |-> conv, prompt |-> prompt, history |-> history]

\* the generation that the resend handler of an edit starts; edit is the
\* edit it belongs to: index, content and the transcript on display when
\* the resend button was clicked
Regeneration(conv, prompt, history, edit) ==
  [conv |-> conv, prompt |-> prompt, history |-> history, edit |-> edit]

\* messages.slice(0, index + 1)
EditHistoryMutant(msgs, index) == SubSeq(msgs, 1, index + 1)

\* const truncatedMessages = messages.slice(0, index), messages being the
\* prop of the render in which the button was clicked
EditHistory(msgs, index) == Slice(msgs, index)

\* generateStream: the history field of the form data, appended only for a
\* history that is not empty
FormHistory(history) ==
  IF Len(history) > 0 THEN [present |-> TRUE, value |-> history]
  ELSE [present |-> FALSE, value |-> <<>>]

\* the request that handleGenerateStream issues for generation g
RequestOf(g) == [prompt |-> g.prompt, history |-> FormHistory(g.history)]

\* the history the stream endpoint reads from the request body
ServerHistory(request) ==
  IF request.history.present THEN request.history.value ELSE <<>>

\* a click handler at its await of FileReader
Suspended(kind, conv, index, content, msgs) ==
  [kind |-> kind, conv |-> conv, index |-> index, content |-> content,
   messages |-> msgs]

RemoveAt(s, i) == SubSeq(s, 1, i - 1) \o SubSeq(s, i + 1, Len(s))

GenerationsUnderWay == Len(streams) + Len(pending)

\* a handler that reads the clock can run
ClockRuns == now < MaxNow

\* the user can act
UserActs == ClockRuns /\ Len(saveCalls) <= MaxPendingSaves

Applied(conv, index, content, before) ==
  [index |-> index, conv |-> conv, content |-> content, before |-> before]

\* handleMessageSent for each of the messages sent, in order
RECURSIVE SendAll(_, _, _, _)
SendAll(a, conv, sent, t) ==
  IF sent = <<>> THEN a
  ELSE SendAll(handleMessageSent(a, conv, Head(sent), t), conv, Tail(sent), t)

Here == AppState(conversations, currentConversationId, messages)

\* onGenerateStream is called: setIsStreaming(true), setLoading(true)
StartStream(g) ==
  /\ isStreaming' = TRUE
  /\ loading' = TRUE
  /\ streams' = Append(streams, g)

turnVars == <<upstream, relayPc, collectedImages, wire, wireEnded, pos,
              readerDone, buffer, currentDataLine, framerPc, events,
              fullResponse, fullThinking, responseImages, transcript,
              serverVars, sideVars>>

\* the "new conversation" button
NewConversation ==
  /\ UserActs
  /\ Len(conversations) < MaxConversations
  /\ Commit(handleNewConversation(Here, now), saveCalls)
  /\ now' = now + 1
  /\ lastEdit' = NoEdit
  /\ UNCHANGED <<store, streams, pending>>
  /\ UNCHANGED <<streamVars, serverVars, sideVars>>

\* a click on a conversation of the side bar
SelectConversation(id) ==
  /\ UserActs
  /\ Commit(handleSelectConversation(Here, id), saveCalls)
  /\ now' = now + 1
  /\ lastEdit' = NoEdit
  /\ UNCHANGED <<store, streams, pending>>
  /\ UNCHANGED <<streamVars, serverVars, sideVars>>

\* the delete button of a conversation, confirmed
DeleteConversation(id) ==
  /\ UserActs
  /\ Commit(handleDeleteConversation(Here, id), saveCalls)
  /\ now' = now + 1
  /\ lastEdit' = NoEdit
  /\ UNCHANGED <<store, streams, pending>>
  /\ UNCHANGED <<streamVars, serverVars, sideVars>>

\* handleSubmit with a prompt.  Without attachments it runs on to the call
\* of onGenerateStream; with attachments it waits for FileReader first.
SubmitPrompt(hasImages) ==
  /\ UserActs
  /\ ~loading /\ ~isStreaming
  /\ GenerationsUnderWay < MaxGenerations
  /\ IF hasImages
     THEN /\ pending' = Append(pending, Suspended("submit", currentConversationId,
                                                  0, Prompt, messages))
          /\ UNCHANGED <<conversations, currentConversationId, messages,
                         saveCalls, lastSave, saveCount, streams, loading,
                         isStreaming>>
     ELSE /\ Commit(handleMessageSent(Here, currentConversationId,
                                      UserMessage(Prompt), now), saveCalls)
          /\ StartStream(Generation(currentConversationId, Prompt, messages))
          /\ UNCHANGED pending
  /\ now' = now + 1
  /\ lastEdit' = NoEdit
  /\ UNCHANGED <<store, turnVars>>

\* handleSubmit after its await
SubmitResumes(i) ==
  /\ ClockRuns
  /\ pending[i].kind = "submit"
  /\ Commit(handleMessageSent(Here, pending[i].conv,
                              [UserMessage(pending[i].content)
                                 EXCEPT !.images = <<AttachedImage>>], now),
            saveCalls)
  /\ StartStream(Generation(pending[i].conv, pending[i].content,
                            pending[i].messages))
  /\ pending' = RemoveAt(pending, i)
  /\ now' = now + 1
  /\ lastEdit' = NoEdit
  /\ UNCHANGED <<store, turnVars>>

\* The resend button of the edit box on the user message at index.  Without
\* new attachments the handler runs on to the call of onGenerateStream;
\* with them handleEditMessage waits for FileReader after the truncation.
ConfirmEdit(index, hasImages) ==
  /\ UserActs
  /\ GenerationsUnderWay < MaxGenerations
  /\ index + 1 \in DOMAIN messages
  /\ messages[index + 1].role = "user"
  /\ LET truncated == handleTruncateMessages(Here, currentConversationId, index, now)
     IN IF hasImages
        THEN /\ Commit(truncated, saveCalls)
             /\ pending' = Append(pending, Suspended("edit", currentConversationId,
                                                     index, EditedContent, messages))
             /\ lastEdit' = NoEdit
             /\ UNCHANGED <<streams, loading, isStreaming>>
        ELSE /\ Commit(handleEditMessage(truncated, currentConversationId, index,
                                         EditedContent, <<>>, now), saveCalls)
             /\ StartStream(Regeneration(currentConversationId, EditedContent,
                                         EditHistory(messages, index),
                                         Applied(currentConversationId, index,
                                                 EditedContent, messages)))
             /\ lastEdit' = Applied(currentConversationId, index, EditedContent,
                                    messages)
             /\ UNCHANGED pending
  /\ now' = now + 1
  /\ UNCHANGED <<store, turnVars>>

\* handleEditMessage after its await; the click handler then waits for its
\* own FileReader
EditResumes(i) ==
  /\ ClockRuns
  /\ pending[i].kind = "edit"
  /\ Commit(handleEditMessage(Here, pending[i].conv, pending[i].index,
                              pending[i].content, <<AttachedImage>>, now),
            saveCalls)
  /\ pending' = [pending EXCEPT ![i].kind = "resend"]
  /\ lastEdit' = Applied(pending[i].conv, pending[i].index, pending[i].content,
                         pending[i].messages)
  /\ now' = now + 1
  /\ UNCHANGED <<store, streams>>
  /\ UNCHANGED <<streamVars, serverVars, sideVars>>

\* the resend handler after its second await
ResendResumes(i) ==
  /\ ClockRuns
  /\ pending[i].kind = "resend"
  /\ StartStream(Regeneration(pending[i].conv, pending[i].content,
                              EditHistory(pending[i].messages, pending[i].index),
                              Applied(pending[i].conv, pending[i].index,
                                      pending[i].content, pending[i].messages)))
  /\ pending' = RemoveAt(pending, i)
  /\ now' = now + 1
  /\ lastEdit' = NoEdit
  /\ UNCHANGED <<storeVars, conversations, currentConversationId, messages,
                 turnVars>>

\* The onGenerateStream call of generation i ends with result: the
\* callbacks run against the locals of the handler that awaits it, and its
\* catch block runs if the call throws.
StreamEnds(i, result) ==
  \E a \in {Assemble(Turn(<<>>, <<>>, <<>>, <<>>, isStreaming), result.out)} :
     /\ ClockRuns
     /\ i \in DOMAIN streams
     /\ Commit(SendAll(Here, streams[i].conv,
                       IF result.thrown # NoError
                       THEN Append(a.sent, ErrorMessage(result.thrown))
                       ELSE a.sent, now), saveCalls)
     /\ isStreaming' = IF result.thrown # NoError THEN FALSE ELSE a.isStreaming
     /\ loading' = IF result.idle THEN FALSE ELSE loading
     /\ streams' = RemoveAt(streams, i)
     /\ now' = now + 1
     /\ lastEdit' = NoEdit
     /\ UNCHANGED <<store, pending, turnVars>>

\* the conversations a returning user has in the store
ReturningUser ==
  { Conversation(1, <<"q">>, 2, <<UserMessage(<<"q">>),
                                 AssistantMessage(<<"o", "k">>, <<>>, <<>>)>>),
    Conversation(3, Prompt, 3, <<UserMessage(Prompt)>>) }

\* the store of a user whose older conversation holds 60MB of images
HeavyUser ==
  { Conversation(1, <<"q">>, 2,
                 <<[UserMessage(<<"q">>) EXCEPT !.images = <<AttachedImage>>],
                   AssistantMessage(<<"o", "k">>, <<>>, <<>>)>>),
    Conversation(3, Prompt, 3, <<UserMessage(Prompt)>>) }

\* Playground after its mount effect: the store is loaded and the latest
\* conversation selected, or a new conversation created in an empty store
InitApp ==
  /\ HeartbeatIdle /\ GuardIdle /\ BuildIdle /\ LadderIdle
  /\ StreamIdle /\ ServerIdle
  /\ streams = <<>> /\ pending = <<>> /\ lastEdit = NoEdit
  /\ evicted = {}
  /\ store \in {{}, ReturningUser, HeavyUser}
  /\ lastSave = <<>>
  /\ LET loaded == loadConversations(store)
         a == IF Len(loaded) > 0
              THEN AppState(loaded, loaded[1].id, loaded[1].messages)
              ELSE handleNewConversation(AppState(<<>>, NoId, <<>>), 3)
     IN /\ conversations = a.conversations
        /\ currentConversationId = a.currentConversationId
        /\ messages = a.messages
        /\ saveCalls = a.calls
        /\ saveCount = Len(a.calls)
        /\ now = 4

NextApp ==
  \/ NewConversation
  \/ \E c \in {conversations[i].id : i \in DOMAIN conversations} :
       SelectConversation(c)
  \/ \E c \in {conversations[i].id : i \in DOMAIN conversations} :
       DeleteConversation(c)
  \/ \E hasImages \in BOOLEAN : SubmitPrompt(hasImages)
  \/ \E i \in DOMAIN pending : SubmitResumes(i)
  \/ \E index \in 0..(Len(messages) - 1), hasImages \in BOOLEAN :
       ConfirmEdit(index, hasImages)
  \/ \E i \in DOMAIN pending : EditResumes(i)
  \/ \E i \in DOMAIN pending : ResendResumes(i)
  \/ \E i \in DOMAIN streams : \E result \in StreamResults : StreamEnds(i, result)
  \/ TransactionCompletes

SpecApp == InitApp /\ [][NextApp]_vars

\* ------------------------------------------------------- conversations: claims

\* the messages of the conversation id in the list convs (<<>>: not there)
TranscriptOf(convs, id) ==
  LET found == SelectSeq(convs, LAMBDA c : c.id = id)
  IN IF found = <<>> THEN <<>> ELSE found[1].messages

IdsIn(convs) == { convs[i].id : i \in DOMAIN convs }

\* C7: when a generation ends, the conversation it was started in gets at
\* most one message, an assistant message appended to its transcript, and
\* the transcript of no other conversation changes - neither in the list of
\* conversations nor on display.
C7_GenerationsAreIndependent ==
  [][ \A i \in DOMAIN streams :
        streams' = RemoveAt(streams, i) =>
          LET A == streams[i].conv
              was == TranscriptOf(conversations, A)
              is == TranscriptOf(conversations', A)
          IN /\ \A id \in IdsIn(conversations) \ {A} :
                  /\ id \in IdsIn(conversations')
                  /\ TranscriptOf(conversations', id) = TranscriptOf(conversations, id)
             /\ A \in IdsIn(conversations) =>
                  \/ is = was
                  \/ /\ Len(is) = Len(was) + 1
                     /\ SubSeq(is, 1, Len(was)) = was
                     /\ is[Len(is)].role = "assistant"
             /\ currentConversationId # A => messages' = messages
    ]_vars

\* C8: no two generations are under way for the same conversation.
C8_OneStreamPerConversation ==
  \A i, j \in DOMAIN streams : streams[i].conv = streams[j].conv => i = j

\* C10: right after an edit of the user message at index k is applied, the
\* transcript on display has length k+1, its messages before k are those
\* of the transcript the edit was confirmed on, message k has the edited
\* content, and the conversation's entry in the list of conversations and
\* in the list handed to saveConversations hold that same transcript.
C10_TruncateOnEdit ==
  lastEdit # NoEdit =>
    LET k == lastEdit.index
    IN /\ Len(messages) = k + 1
       /\ SubSeq(messages, 1, k) = SubSeq(lastEdit.before, 1, k)
       /\ messages[k + 1].role = "user"
       /\ messages[k + 1].content = lastEdit.content
       /\ lastEdit.conv \in IdsIn(conversations) =>
            /\ TranscriptOf(conversations, lastEdit.conv) = messages
            /\ TranscriptOf(lastSave, lastEdit.conv) = messages


\* the generations under way that an edit has started
Regenerations == { i \in DOMAIN streams : "edit" \in DOMAIN streams[i] }

\* C11: the request of a regeneration carries as history the messages
\* before the edited index of the transcript the edit was confirmed on, in
\* order, and as prompt the edited content.
C11_RegenerationHistory ==
  \A i \in Regenerations :
    LET g == streams[i]
    IN /\ ServerHistory(RequestOf(g)) = SubSeq(g.edit.before, 1, g.edit.index)
       /\ RequestOf(g).prompt = g.edit.content

\* a regeneration for an edit that has messages before it and after it
C11_Witness ==
  \E i \in Regenerations :
    /\ streams[i].edit.index > 0
    /\ Len(streams[i].edit.before) > streams[i].edit.index + 1

\* the ways an onGenerateStream call fails: it throws, it meets an error
\* record, or the response ends without a done record
FailedResults ==
  { r \in StreamResults :
      \/ r.thrown # NoError
      \/ \E n \in DOMAIN r.out : r.out[n].cb = "errorRecord"
      \/ ~r.idle }

\* the transcript of the conversation edit.conv after a failed
\* regeneration, as C12 describes it
TruncatedWithError(edit, msgs, convs, saved) ==
  LET k == edit.index
  IN /\ Len(msgs) = k + 2
     /\ SubSeq(msgs, 1, k) = SubSeq(edit.before, 1, k)
     /\ msgs[k + 1].role = "user"
     /\ msgs[k + 1].content = edit.content
     /\ IsErrorMessage(msgs[k + 2])
     /\ TranscriptOf(convs, edit.conv) = msgs
     /\ TranscriptOf(saved, edit.conv) = msgs

\* C12: when the regeneration of an edit at index k fails, the transcript
\* ends up with length k+2: the messages before k unchanged, the edited
\* user message, and an assistant message with the error; the list of
\* conversations and the list handed to saveConversations hold the same.
C12_FailedRegeneration ==
  [][ \A i \in Regenerations : \A r \in FailedResults :
        StreamEnds(i, r) =>
          TruncatedWithError(streams[i].edit, messages', conversations', lastSave')
    ]_vars

\* an assistant message with no text, no thinking and no image
IsEmptyMessage(m) ==
  m.role = "assistant" /\ m.content = <<>> /\ m.thinking = <<>> /\ m.images = <<>>

\* C13: every assistant message that onComplete persists has non-empty
\* content, non-empty thinking or at least one image, whatever sequence of
\* text, thinking (whitespace-only thinking included) and image events the
\* stream delivered before done.
C13_NoEmptyAssistantMessage ==
  \A n \in DOMAIN transcript : ~IsEmptyMessage(transcript[n])

\* --------------------------------------- POST /api/generate/stream and its uploads

MaxFiles == 2        \* the attachments of the request that is modelled
MaxChunks == 2       \* the chunks its upstream stream yields at most
MaxHeartbeats == 1   \* the heartbeats written while the first chunk is awaited

\* the paths multer.diskStorage gives the attachments of one request
FilePaths(n) == [k \in 1..n |-> "uploads/" \o ToString(k) \o "-a.png"]

\* req.files.forEach(file => { if (fs.existsSync(file.path)) fs.unlinkSync(file.path) })
CleanUp(dir, files) == dir \ { files[n] : n \in DOMAIN files }

Heartbeats == Len(SelectSeq(resBody, LAMBDA k : k = "heartbeat"))

\* Writable with the closed response taken for an open one
WritableMutant == TRUE

\* the response is open for a write
Writable == ~resClosed

\* PromptMissing with no prompt ever found missing
PromptMissingMutant(prompt) == FALSE

\* !prompt
PromptMissing(prompt) == prompt = <<>>

\* catch (error) of the handler: the files are removed, then the error goes
\* out as SSE records if the SSE headers are set and as a JSON body with
\* status 500 if they are not
OuterCatch_Handler(isSSE) ==
  /\ uploads' = CleanUp(uploads, reqFiles)
  /\ IF isSSE
     THEN /\ resBody' = IF Writable THEN resBody \o <<"error", "done", "end">>
                        ELSE resBody
          /\ UNCHANGED resStatus
     ELSE /\ resStatus' = 500
          /\ resBody' = Append(resBody, "json")
  /\ handlerPc' = "returned"

\* The handler from its entry to `await model.generateContentStream(...)`:
\* the two early returns, getGenerativeModel (which may throw) and the SSE
\* headers.
HandlerStart(modelFails) ==
  /\ handlerPc = "received"
  /\ IF ~genAI
     THEN /\ resStatus' = 500 /\ resBody' = Append(resBody, "json")
          /\ handlerPc' = "returned"
          /\ UNCHANGED uploads
     ELSE IF PromptMissing(reqPrompt)
     THEN /\ resStatus' = 400 /\ resBody' = Append(resBody, "json")
          /\ handlerPc' = "returned"
          /\ UNCHANGED uploads
     ELSE IF modelFails
     THEN OuterCatch_Handler(FALSE)
     ELSE /\ resStatus' = 200
          /\ handlerPc' = "calling"
          /\ UNCHANGED <<uploads, resBody>>
  /\ UNCHANGED <<genAI, reqFiles, reqPrompt, resClosed, chunkCount>>
  /\ UNCHANGED <<nonServerVars, authVars, proxyVars>>

\* Heartbeat with a timer that the first chunk does not stop
HeartbeatMutant ==
  /\ handlerPc \in {"calling", "streaming"}
  /\ Writable /\ Heartbeats < MaxHeartbeats
  /\ resBody' = Append(resBody, "heartbeat")
  /\ UNCHANGED <<genAI, reqFiles, reqPrompt, uploads, handlerPc, resStatus,
                 resClosed, chunkCount>>
  /\ UNCHANGED <<nonServerVars, authVars, proxyVars>>

\* the interval timer that runs until the first chunk arrives
Heartbeat ==
  /\ handlerPc = "calling" \/ (handlerPc = "streaming" /\ chunkCount = 0)
  /\ Writable /\ Heartbeats < MaxHeartbeats
  /\ resBody' = Append(resBody, "heartbeat")
  /\ UNCHANGED <<genAI, reqFiles, reqPrompt, uploads, handlerPc, resStatus,
                 resClosed, chunkCount>>
  /\ UNCHANGED <<nonServerVars, authVars, proxyVars>>

\* model.generateContentStream(...) resolves
ApiResolves ==
  /\ handlerPc = "calling"
  /\ handlerPc' = "streaming"
  /\ UNCHANGED <<genAI, reqFiles, reqPrompt, uploads, resStatus, resBody,
                 resClosed, chunkCount>>
  /\ UNCHANGED <<nonServerVars, authVars, proxyVars>>

\* model.generateContentStream(...) rejects: throw apiError
ApiRejects ==
  /\ handlerPc = "calling"
  /\ OuterCatch_Handler(TRUE)
  /\ UNCHANGED <<genAI, reqFiles, reqPrompt, resClosed, chunkCount>>
  /\ UNCHANGED <<nonServerVars, authVars, proxyVars>>

\* the files are removed at the end of the try block
HandlerEnd ==
  /\ uploads' = CleanUp(uploads, reqFiles)
  /\ handlerPc' = "returned"

\* One iteration of the for-await loop. A closed response makes it break,
\* and what follows the loop writes nothing to a closed response.
StreamChunk ==
  /\ handlerPc = "streaming" /\ chunkCount < MaxChunks
  /\ chunkCount' = chunkCount + 1
  /\ IF Writable
     THEN /\ resBody' = Append(resBody, "chunk")
          /\ UNCHANGED <<uploads, handlerPc>>
     ELSE /\ HandlerEnd
          /\ UNCHANGED resBody
  /\ UNCHANGED <<genAI, reqFiles, reqPrompt, resStatus, resClosed>>
  /\ UNCHANGED <<nonServerVars, authVars, proxyVars>>

\* the upstream stream ends: the done record, res.end(), the clean-up
StreamFinishes ==
  /\ handlerPc = "streaming"
  /\ resBody' = IF Writable THEN resBody \o <<"done", "end">> ELSE resBody
  /\ HandlerEnd
  /\ UNCHANGED <<genAI, reqFiles, reqPrompt, resStatus, resClosed, chunkCount>>
  /\ UNCHANGED <<nonServerVars, authVars, proxyVars>>

\* The iteration or a write throws: catch (streamError) reports it on an open
\* response and rethrows it to the outer catch on a closed one.
StreamThrows ==
  /\ handlerPc = "streaming"
  /\ IF Writable
     THEN /\ resBody' = resBody \o <<"error", "done", "end">>
          /\ HandlerEnd
          /\ UNCHANGED resStatus
     ELSE OuterCatch_Handler(TRUE)
  /\ UNCHANGED <<genAI, reqFiles, reqPrompt, resClosed, chunkCount>>
  /\ UNCHANGED <<nonServerVars, authVars, proxyVars>>

\* the client goes away while the handler runs
ClientDisconnects ==
  /\ handlerPc \in {"calling", "streaming"} /\ ~resClosed
  /\ resClosed' = TRUE
  /\ UNCHANGED <<genAI, reqFiles, reqPrompt, uploads, handlerPc, resStatus,
                 resBody, chunkCount>>
  /\ UNCHANGED <<nonServerVars, authVars, proxyVars>>

\* One authenticated request has passed upload.array('images', 5): its
\* attachments are in uploads/ and the handler is about to run.
InitGenerate ==
  /\ HeartbeatIdle /\ GuardIdle /\ BuildIdle /\ LadderIdle
  /\ StoreIdle /\ AppIdle /\ StreamIdle /\ AuthIdle /\ ProxyIdle
  /\ genAI \in BOOLEAN
  /\ reqPrompt \in {<<>>, Prompt}
  /\ \E n \in 0..MaxFiles : reqFiles = FilePaths(n)
  /\ uploads = { reqFiles[n] : n \in DOMAIN reqFiles }
  /\ handlerPc = "received" /\ resStatus = 0 /\ resBody = <<>>
  /\ resClosed = FALSE /\ chunkCount = 0

NextGenerate ==
  \/ \E modelFails \in BOOLEAN : HandlerStart(modelFails)
  \/ Heartbeat
  \/ ApiResolves
  \/ ApiRejects
  \/ StreamChunk
  \/ StreamFinishes
  \/ StreamThrows
  \/ ClientDisconnects

SpecGenerate == InitGenerate /\ [][NextGenerate]_vars

\* C14: when the handler of a streaming generate request has finished, the
\* temporary files of its attachments are gone from uploads/, whichever way
\* it finished: completion, upstream error, client disconnect, or an early
\* rejection (AI client not configured, empty prompt, model initialisation
\* failure).
C14_TempFilesDeleted ==
  handlerPc = "returned" => uploads \cap { reqFiles[n] : n \in DOMAIN reqFiles } = {}

\* ------------------------------------------------------ POST /api/auth/login

MAX_ATTEMPTS == 5
WINDOW_MS == 10 * 60 * 1000

MaxHalfWindows == 2   \* the clock of the model stops after this many half windows
MaxInFlight == 1      \* the login requests that await bcrypt.compare together

\* the instants at which the model lets something happen
Instants ==
  { k * (WINDOW_MS \div 2) + d : k \in 0..MaxHalfWindows, d \in {0, WINDOW_MS \div 2 - 1} }

\* Math.ceil(x / d)
Ceil(x, d) == -((-x) \div d)

\* cleanExpiredAttempts that keeps an attempt for the whole of WINDOW_MS
cleanExpiredAttemptsMutant(attempts, t) ==
  SelectSeq(attempts, LAMBDA ts : t - ts <= WINDOW_MS)

\* cleanExpiredAttempts: the attempts that stay in the list
cleanExpiredAttempts(attempts, t) ==
  SelectSeq(attempts, LAMBDA ts : t - ts < WINDOW_MS)

RateLimitedMutant(valid) == Len(valid) > MAX_ATTEMPTS

\* checkRateLimit, on the list that cleanExpiredAttempts has left
RateLimited(valid) == Len(valid) >= MAX_ATTEMPTS

\* retryAfter of the 429 answer
RetryAfter(valid, t) == Ceil(WINDOW_MS - (t - valid[1]), 1000)

\* what a login request carries
Credentials == {"missing", "unknownUser", "wrongPassword", "correct"}

Answer(step, cred, status, retryAfter, before) ==
  [step |-> step, cred |-> cred, status |-> status, retryAfter |-> retryAfter,
   before |-> before]

\* The handler from its entry to its first answer or to
\* `await bcrypt.compare(password, user.password)`.
LoginArrives(cred) ==
  /\ \E valid \in {cleanExpiredAttempts(failedLoginAttempts, clock)} :
       IF RateLimited(valid)
       THEN /\ failedLoginAttempts' = valid
            /\ lastLogin' = Answer("arrived", cred, 429, RetryAfter(valid, clock),
                                   failedLoginAttempts)
            /\ lockout' = [at |-> clock, retryAfter |-> RetryAfter(valid, clock),
                           failures |-> valid]
            /\ UNCHANGED comparing
       ELSE IF cred = "missing"
       THEN /\ failedLoginAttempts' = valid
            /\ lastLogin' = Answer("arrived", cred, 400, 0, failedLoginAttempts)
            /\ UNCHANGED <<comparing, lockout>>
       ELSE IF cred = "unknownUser"
       THEN /\ failedLoginAttempts' = Append(valid, clock)
            /\ lastLogin' = Answer("arrived", cred, 401, 0, failedLoginAttempts)
            /\ UNCHANGED <<comparing, lockout>>
       ELSE /\ Len(comparing) < MaxInFlight
            /\ failedLoginAttempts' = valid
            /\ comparing' = Append(comparing, cred)
            /\ lastLogin' = Answer("arrived", cred, 0, 0, failedLoginAttempts)
            /\ UNCHANGED lockout
  /\ UNCHANGED clock
  /\ UNCHANGED nonAuthVars

\* bcrypt.compare resolves for one of the requests that wait for it
CompareResolves(i) ==
  /\ i \in DOMAIN comparing
  /\ comparing' = RemoveAt(comparing, i)
  /\ IF comparing[i] = "wrongPassword"
     THEN /\ failedLoginAttempts' = Append(failedLoginAttempts, clock)
          /\ lastLogin' = Answer("compared", comparing[i], 401, 0, failedLoginAttempts)
     ELSE /\ failedLoginAttempts' = <<>>
          /\ lastLogin' = Answer("compared", comparing[i], 200, 0, failedLoginAttempts)
  /\ UNCHANGED <<clock, lockout>>
  /\ UNCHANGED nonAuthVars

\* time passes
Tick(t) ==
  /\ t > clock
  /\ clock' = t
  /\ lastLogin' = NoLogin
  /\ UNCHANGED <<failedLoginAttempts, comparing, lockout>>
  /\ UNCHANGED nonAuthVars

InitLogin ==
  /\ HeartbeatIdle /\ GuardIdle /\ BuildIdle /\ LadderIdle
  /\ StoreIdle /\ AppIdle /\ StreamIdle /\ ServerIdle

NextLogin ==
  \/ \E cred \in Credentials : LoginArrives(cred)
  \/ \E i \in 1..MaxInFlight : CompareResolves(i)
  \/ \E t \in Instants : Tick(t)

SpecLogin == InitLogin /\ [][NextLogin]_vars

\* ---------------------------------------------------------- the login: claims

\* how many of the recorded failures are younger than ten minutes at t
Young(attempts, t) ==
  Cardinality({ n \in DOMAIN attempts : t - attempts[n] < 10 * 60 * 1000 })

\* C15: a login request that arrives when five failed logins are recorded
\* within the last ten minutes is answered 429, correct credentials or not;
\* and a successful login leaves no recorded failure.
C15_RateLimit ==
  /\ (lastLogin.step = "arrived" /\ Young(lastLogin.before, clock) >= 5)
       => lastLogin.status = 429
  /\ (lastLogin.step = "compared" /\ lastLogin.status = 200)
       => failedLoginAttempts = <<>>

\* the sixth attempt, with correct credentials, after five failures
C15_Witness ==
  /\ lastLogin.step = "arrived" /\ lastLogin.cred = "correct"
  /\ Len(lastLogin.before) = 5 /\ lastLogin.status = 429

\* the oldest of the recorded failures that are younger than ten minutes at t
OldestYoung(attempts, t) ==
  CHOOSE ts \in { attempts[n] : n \in DOMAIN attempts } :
    /\ t - ts < 10 * 60 * 1000
    /\ \A n \in DOMAIN attempts :
         t - attempts[n] < 10 * 60 * 1000 => ts <= attempts[n]

\* the failure recorded at ts is no longer in the window r seconds after t
LeavesAfter(ts, t, r) == (t + r * 1000) - ts >= 10 * 60 * 1000

IsSuffix(s, t) == Len(s) <= Len(t) /\ s = SubSeq(t, Len(t) - Len(s) + 1, Len(t))

C16_RejectedExactlyWhileLocked ==
  lastLogin.step = "arrived" =>
    (lastLogin.status = 429 <=> Young(lastLogin.before, clock) >= 5)

C16_RetryAfterIsTimeToOldest ==
  (lastLogin.step = "arrived" /\ lastLogin.status = 429) =>
    /\ lastLogin.retryAfter \in 1..600
    /\ LeavesAfter(OldestYoung(lastLogin.before, clock), clock, lastLogin.retryAfter)
    /\ ~LeavesAfter(OldestYoung(lastLogin.before, clock), clock,
                    lastLogin.retryAfter - 1)

\* a login with correct credentials arrives when the retryAfter of the latest
\* 429 answer has elapsed, no failure having been recorded since
ArrivesAfterRetryAfter ==
  /\ LoginArrives("correct")
  /\ lockout # NoLockout
  /\ clock >= lockout.at + lockout.retryAfter * 1000
  /\ IsSuffix(failedLoginAttempts, lockout.failures)

\* C16: a login is answered 429 exactly while at least five recorded failures
\* are younger than ten minutes; the retryAfter of that answer is the number
\* of seconds, between 1 and 600, until the oldest recorded failure leaves
\* the window; and once that time has elapsed a login with correct
\* credentials is not rejected.
C16_LockoutLastsUntilWindowClears ==
  /\ [](C16_RejectedExactlyWhileLocked /\ C16_RetryAfterIsTimeToOldest)
  /\ [][ArrivesAfterRetryAfter => lastLogin'.status # 429]_vars

\* ------------------------------------------------------ the store: eviction

\* the total size of the conversations of a list
ListSize(list) == SumOf([i \in 1..Len(list) |-> calculateSize(list[i])])

\* the conversations of a set, most recently updated first, as far as their
\* sizes add up to at most 100MB
RECURSIVE FittingPrefix(_, _)
FittingPrefix(newestFirst, room) ==
  IF newestFirst = <<>> \/ calculateSize(Head(newestFirst)) > room THEN {}
  ELSE {Head(newestFirst)}
       \cup FittingPrefix(Tail(newestFirst), room - calculateSize(Head(newestFirst)))

MostRecentThatFit(list) ==
  FittingPrefix(loadConversations({ list[i] : i \in DOMAIN list }), 100 * 1024 * 1024)

\* the save calls are complete and the latest was handed more than 100MB
SavedOverBudget ==
  StoreQuiet /\ saveCount >= 1 /\ ListSize(lastSave) > 100 * 1024 * 1024

\* C17: when saveConversations has completed on conversations whose total
\* size is over 100MB, what loadConversations returns is at most 100MB in
\* total and is exactly the most recently updated conversations that fit.
C17_EvictionKeepsMostRecent ==
  SavedOverBudget =>
    /\ ListSize(loadConversations(store)) <= 100 * 1024 * 1024
    /\ store = MostRecentThatFit(lastSave)

\* one saveConversations call was made, it has completed, and what it was
\* handed is within 100MB
SingleSaveDone ==
  StoreQuiet /\ saveCount = 1 /\ ListSize(lastSave) <= 100 * 1024 * 1024

\* C18: after a single saveConversations(L) call has completed, with no
\* other save running and L within the budget, the store holds exactly the
\* conversations of L: every id absent from L is gone and every entry of L
\* is stored with the content L gives it.
C18_BulkSaveReconciles ==
  SingleSaveDone =>
    /\ { c.id : c \in store } = IdsOf(lastSave)
    /\ \A i \in DOMAIN lastSave : lastSave[i] \in store

C18_Witness == SingleSaveDone /\ Len(lastSave) = 1 /\ Cardinality(store) = 1

\* ------------------------------------------------ conversations: eviction

StoredIds == { c.id : c \in store }

\* C19: a conversation that capacity eviction has removed from the store is
\* destroyed: no later save puts it into the store again, and the user
\* cannot select it.
C19_EvictedIsDestroyed ==
  /\ [](\A id \in evicted : id \notin StoredIds)
  /\ [][\A id \in evicted : ~SelectConversation(id)]_vars

\* ------------------------------------- the route that forwards the stream request

REQUEST_TIMEOUT == 5 * 60 * 1000

MaxTicks == 12      \* the ticks the clock of the model runs
MaxRelayed == 3     \* the chunks of the backend's body that are passed on

\* the time between two ticks of the clock of the model
TickLength == 30 * 1000

\* what the backend answers the forwarded request with
BackendAnswers == {200, 204, 401, 500}

\* POST: the form data is copied, the timer is set and fetch is called
ProxyForwards ==
  /\ proxyPc = "idle"
  /\ proxyPc' = "fetching"
  /\ timeoutId' = TRUE
  /\ UNCHANGED <<elapsed, proxyStatus, relayed>>
  /\ UNCHANGED nonProxyVars

\* fetch resolves with the backend's status line and headers:
\* clearTimeout, then the response of the route
BackendResponds(status) ==
  /\ proxyPc = "fetching"
  /\ timeoutId' = FALSE
  /\ IF status \notin 200..299
     THEN proxyStatus' = status /\ proxyPc' = "returned"
     ELSE IF status = 204
     THEN proxyStatus' = 500 /\ proxyPc' = "returned"
     ELSE proxyStatus' = 200 /\ proxyPc' = "streaming"
  /\ UNCHANGED <<elapsed, relayed>>
  /\ UNCHANGED nonProxyVars

\* fetch rejects with an error that is no AbortError
FetchFails ==
  /\ proxyPc = "fetching"
  /\ timeoutId' = FALSE
  /\ proxyStatus' = 500 /\ proxyPc' = "returned"
  /\ UNCHANGED <<elapsed, relayed>>
  /\ UNCHANGED nonProxyVars

\* the timer fires: controller.abort(), fetch rejects with AbortError and
\* the route answers 504
TimerFires ==
  /\ timeoutId /\ elapsed >= REQUEST_TIMEOUT
  /\ timeoutId' = FALSE
  /\ proxyStatus' = 504 /\ proxyPc' = "returned"
  /\ UNCHANGED <<elapsed, relayed>>
  /\ UNCHANGED nonProxyVars

\* a chunk of backendResponse.body passes to the client
BodyChunk ==
  /\ proxyPc = "streaming" /\ relayed < MaxRelayed
  /\ relayed' = relayed + 1
  /\ UNCHANGED <<proxyPc, elapsed, timeoutId, proxyStatus>>
  /\ UNCHANGED nonProxyVars

\* backendResponse.body ends and so does the response of the route
BodyEnds ==
  /\ proxyPc = "streaming"
  /\ proxyPc' = "closed"
  /\ UNCHANGED <<elapsed, timeoutId, proxyStatus, relayed>>
  /\ UNCHANGED nonProxyVars

\* Time passes while the request is in progress.  A pending timer
\* fires when it is due: time does not pass it by.
TimePasses ==
  /\ proxyPc \in {"fetching", "streaming"}
  /\ elapsed < MaxTicks * TickLength
  /\ timeoutId => elapsed < REQUEST_TIMEOUT
  /\ elapsed' = elapsed + TickLength
  /\ UNCHANGED <<proxyPc, timeoutId, proxyStatus, relayed>>
  /\ UNCHANGED nonProxyVars

InitProxy ==
  /\ HeartbeatIdle /\ GuardIdle /\ BuildIdle /\ LadderIdle
  /\ StoreIdle /\ AppIdle /\ StreamIdle /\ ServerIdle

NextProxy ==
  \/ ProxyForwards
  \/ \E status \in BackendAnswers : BackendResponds(status)
  \/ FetchFails
  \/ TimerFires
  \/ BodyChunk
  \/ BodyEnds
  \/ TimePasses

SpecProxy == InitProxy /\ [][NextProxy]_vars

\* the request is in progress: the route waits for the backend or passes its
\* body on
InProgress == proxyPc \in {"fetching", "streaming"}

\* C20: no request is in progress more than five minutes after it started,
\* whether it waits for the backend's first byte or is streaming: at five
\* minutes it is terminated with a timeout error.
C20_HardTimeout == InProgress => elapsed <= 5 * 60 * 1000

\* ------------------------------------- POST /api/generate/stream: claims

\* the upstream fails: getGenerativeModel throws, generateContentStream
\* rejects, or the iteration of the stream throws
UpstreamFails ==
  \/ HandlerStart(TRUE) /\ genAI /\ reqPrompt # <<>>
  \/ ApiRejects
  \/ StreamThrows

\* the response carries an error record of the event stream
HasErrorRecord(body) == \E n \in DOMAIN body : body[n] = "error"

\* C21: every upstream failure of a streaming request, wherever it arises,
\* reaches a client that is still connected as an error record on the event
\* stream.
C21_UniformErrorRecord ==
  [][(UpstreamFails /\ ~resClosed) => (resStatus' = 200 /\ HasErrorRecord(resBody'))]_vars


\* --------------------------------------- the framer against a damaged response

MaxDamagedRecords == 1

\* the records around the damage (single-byte characters only, so that the
\* decoding of a chunk does not depend on where it is cut)
DamagedWireRecords == { TextRecord(<<"a">>), ThinkingRecord(<<"p">>), DoneRecord }

\* where the JSON text of a record is cut: after its opening brace, and
\* before its closing brace
CutPoints(json) == {1, Len(json) - 1}

\* a record whose JSON text stops after n characters; terminated: the end
\* of the line and the blank line were still written
CutRecord(r, n, terminated) ==
  Utf8Encode(DataPrefix \o SubSeq(JsonStringify(r), 1, n)
             \o (IF terminated THEN <<NL, NL>> ELSE <<>>))

\* a valid record whose JSON text is spread over two lines, broken after its
\* opening brace; the second line is a data line or a bare continuation
SplitRecord(r, dataLine) ==
  LET json == JsonStringify(r)
  IN Utf8Encode(DataPrefix \o SubSeq(json, 1, 1) \o <<NL>>
                \o (IF dataLine THEN DataPrefix ELSE <<>>)
                \o SubSeq(json, 2, Len(json)) \o <<NL, NL>>)

\* A damaged response and the valid records it carries:
\*   a record spread over two lines, among valid records;
\*   a line that stops inside its record, among valid records;
\*   a response that ends inside a record.
DamagedResponses ==
  LET Around == SeqsUpTo(DamagedWireRecords, MaxDamagedRecords)
  IN { [wire  |-> SseRecords(before) \o SplitRecord(r, dl) \o SseRecords(after),
        valid |-> before \o <<r>> \o after]
       : before \in Around, after \in Around,
         r \in DamagedWireRecords \ {DoneRecord}, dl \in BOOLEAN }
     \cup
     UNION { { [wire  |-> SseRecords(before) \o CutRecord(r, n, TRUE)
                           \o SseRecords(after),
                valid |-> before \o after]
               : n \in CutPoints(JsonStringify(r)) }
             : before \in Around, after \in Around, r \in DamagedWireRecords }
     \cup
     UNION { { [wire  |-> SseRecords(before) \o CutRecord(r, n, FALSE),
                valid |-> before]
               : n \in CutPoints(JsonStringify(r)) }
             : before \in Around, r \in DamagedWireRecords }

InitDamaged ==
  /\ HeartbeatIdle /\ GuardIdle /\ BuildIdle /\ LadderIdle
  /\ StoreIdle /\ AppIdle /\ ServerIdle
  /\ \E d \in DamagedResponses : wire = d.wire
  /\ wireEnded = TRUE
  /\ upstream = <<>> /\ relayPc = "ended" /\ collectedImages = <<>>
  /\ ClientIdle

SpecDamaged == InitDamaged /\ [][NextFramer]_vars

RECURSIVE IsSubsequence(_, _)
IsSubsequence(s, t) ==
  IF s = <<>> THEN TRUE
  ELSE IF t = <<>> THEN FALSE
  ELSE IF Head(s) = Head(t) THEN IsSubsequence(Tail(s), Tail(t))
  ELSE IsSubsequence(s, Tail(t))

\* the framer holds text of a record that it has not parsed
PendingRecord ==
  \/ currentDataLine # <<>>
  \/ StartsWith(buffer, DataPrefix) /\ Len(buffer) > Len(DataPrefix)

ErrorTurnAppended ==
  Len(transcript) > 0 /\ IsErrorMessage(transcript[Len(transcript)])

\* every callback the valid records of the response trigger when they
\* arrive alone has been invoked, in order
ValidRecordsDispatched ==
  \A d \in DamagedResponses :
     wire = d.wire =>
       IsSubsequence(SingleChunkCallbacks(SseRecords(d.valid)), CallbacksOf(events))

\* C22: when the stream has ended while the framer still holds text of a
\* record it could not parse, an error turn has been appended to the
\* transcript; and once the whole response was read, every callback of the
\* valid records has been invoked, whatever line failed to parse alone.
C22_UnparsedRecordSurfaced ==
  (TurnOver /\ readerDone)
    => /\ PendingRecord => ErrorTurnAppended
       /\ ValidRecordsDispatched


\* ------------------------------------------ the framer against heartbeat lines

MaxHeartbeatRecords == 2
MaxBeats == 2

\* res.write(`: heartbeat ${heartbeatTime}\n\n`), as bytes
HeartbeatLine ==
  Utf8Encode(<<":", " ", "h", "e", "a", "r", "t", "b", "e", "a", "t", " ", "7",
               NL, NL>>)

Beats(n) == Concat([j \in 1..n |-> HeartbeatLine])

\* the records of a response that carries heartbeat lines
HeartbeatWireRecords ==
  { TextRecord(<<"a", "E9">>), ThinkingRecord(<<"p">>),
    ErrorRecord(<<"E">>, <<"x">>, <<"s">>), DoneRecord }

\* The records rs from the i-th on, with gaps[j] heartbeat lines in front of
\* the j-th record and gaps[Len(rs) + 1] after the last: the bytes, and the
\* positions of the bytes that belong to heartbeat lines.
RECURSIVE WithHeartbeats(_, _, _)
WithHeartbeats(rs, gaps, i) ==
  LET head == Beats(gaps[i])
  IN IF i > Len(rs) THEN [wire |-> head, at |-> 1..Len(head)]
     ELSE LET rest == WithHeartbeats(rs, gaps, i + 1)
              off  == Len(head) + Len(SseRecord(rs[i]))
          IN [wire |-> head \o SseRecord(rs[i]) \o rest.wire,
              at   |-> (1..Len(head)) \cup { q + off : q \in rest.at }]

\* the bytes of wire from lo to hi that belong to no heartbeat line
PlainBytes(lo, hi) ==
  LET kept == SelectSeq([i \in 1..(hi - lo + 1) |-> lo + i - 1],
                        LAMBDA q : q \notin heartbeatAt)
  IN [i \in 1..Len(kept) |-> wire[kept[i]]]

\* the framer of the response without heartbeat lines takes its share of a chunk
PlainChunk(bytes) ==
  IF bytes = <<>> \/ plain.status # "reading" THEN plain
  ELSE Only({ [buffer |-> f.buffer, cdl |-> f.cdl, out |-> plain.out \o f.out,
               status |-> f.status]
              : f \in {OnChunk(plain.buffer, plain.cdl, bytes)} })

\* and learns that the response has ended
PlainEnd ==
  IF plain.status # "reading" THEN plain
  ELSE Only({ [plain EXCEPT !.out = @ \o r.out, !.status = r.status]
              : r \in {AfterLoop(plain.cdl)} })

nonHeartbeatVars == <<storeVars, appVars, serverVars, evictionVars, guardVars,
                      buildVars, ladderVars>>

HeartbeatRespond ==
  /\ framerPc = "requesting"
  /\ framerPc' = "reading"
  /\ buffer' = <<>> /\ currentDataLine' = <<>>
  /\ plain' = [plain EXCEPT !.status = "reading"]
  /\ UNCHANGED <<relayVars, pos, readerDone, events, fullResponse, fullThinking,
                 responseImages, transcript, loading, isStreaming, heartbeatAt>>
  /\ UNCHANGED nonHeartbeatVars

HeartbeatRead(k) ==
  /\ ReadBytes(k)
  /\ plain' = PlainChunk(PlainBytes(pos + 1, pos + k))
  /\ UNCHANGED heartbeatAt
  /\ UNCHANGED nonHeartbeatVars

HeartbeatReadEnd ==
  /\ ReadDone
  /\ plain' = PlainEnd
  /\ UNCHANGED heartbeatAt
  /\ UNCHANGED nonHeartbeatVars

InitHeartbeat ==
  /\ StoreIdle /\ AppIdle /\ ServerIdle /\ GuardIdle /\ BuildIdle /\ LadderIdle
  /\ \E rs \in SeqsUpTo(HeartbeatWireRecords, MaxHeartbeatRecords) :
       \E gaps \in [1..(Len(rs) + 1) -> 0..MaxBeats] :
         \E w \in {WithHeartbeats(rs, gaps, 1)} :
            wire = w.wire /\ heartbeatAt = w.at
  /\ plain = [buffer |-> <<>>, cdl |-> <<>>, out |-> <<>>, status |-> "idle"]
  /\ wireEnded = TRUE
  /\ upstream = <<>> /\ relayPc = "ended" /\ collectedImages = <<>>
  /\ ClientIdle

NextHeartbeat ==
  \/ Submit(TRUE)
  \/ HeartbeatRespond
  \/ \E k \in ChunkSizes(Len(wire) - pos) : HeartbeatRead(k)
  \/ HeartbeatReadEnd

SpecHeartbeat == InitHeartbeat /\ [][NextHeartbeat]_vars

\* C23: at every moment the callbacks the framer has invoked for the
\* response with heartbeat lines are, in order and payload, those the framer
\* invokes for the same chunks without the bytes of the heartbeat lines.
C23_HeartbeatsAreIgnored == CallbacksOf(events) = CallbacksOf(plain.out)

\* a heartbeat line lies between two records that were both dispatched
C23_Witness ==
  /\ TurnOver /\ readerDone
  /\ Len(CallbacksOf(events)) >= 2
  /\ \E q \in heartbeatAt :
        /\ \E lo \in 1..q : lo \notin heartbeatAt
        /\ \E hi \in q..Len(wire) : hi \notin heartbeatAt


\* ------------------------------------------------- the persisted assistant message

\* the payloads of the callbacks cb invoked so far, concatenated in order
DeltasOf(cb) ==
  LET sel == SelectSeq(events, LAMBDA ev : ev.cb = cb)
  IN Concat([i \in 1..Len(sel) |-> sel[i].text])

\* the images handed to onImage so far, in order
ImagesReceived ==
  LET sel == SelectSeq(events, LAMBDA ev : ev.cb = "onImage")
  IN [i \in 1..Len(sel) |-> sel[i].image]

\* C24: once onComplete has run, the assistant message it has appended holds
\* as content the text deltas concatenated in order, as thinking the thinking
\* deltas concatenated in order (absent, here <<>>, exactly when that
\* concatenation is empty) and as images the images received, in order.
C24_PersistedMessage ==
  (Completed /\ Len(AssistantMessages) > 0)
    => LET m == AssistantMessages[Len(AssistantMessages)]
       IN /\ m.content = DeltasOf("onChunk")
          /\ m.thinking = DeltasOf("onThinking")
          /\ m.images = ImagesReceived


\* a response that is the done record alone: onComplete finds fullResponse,
\* fullThinking and responseImages empty
EmptyDone == WholeResponse(SseRecords(<<DoneRecord>>))

\* C25: when a generation ends with done while no text, no thinking and no
\* image was received, the step appends nothing: the messages on display,
\* the conversations and the store, with its pending saves, stay as they
\* were after the user message.
C25_EmptyDoneAppendsNothing ==
  [][\A i \in DOMAIN streams :
        StreamEnds(i, EmptyDone)
          => UNCHANGED <<messages, conversations, currentConversationId, storeVars>>]_vars

\* a generation is over, and the conversation on display still ends with
\* the user message, stored as it is displayed
C25_Witness ==
  /\ streams = <<>> /\ pending = <<>> /\ saveCalls = <<>> /\ saveCount > 0
  /\ ~isStreaming /\ ~loading
  /\ Len(messages) > 0 /\ messages[Len(messages)].role = "user"
  /\ \E c \in store : c.id = currentConversationId /\ c.messages = messages


\* --------------------------------------------- the guard of the protected endpoints

MaxUploads == 2

TOKEN_LIFETIME == 7 * 24 * 60 * 60          \* expiresIn: '7d', in seconds

\* jwt.sign({id, name}, secret, {expiresIn: '7d'}) at second iat; a text that
\* is no token at all has wellFormed = FALSE
Jwt(wellFormed, secret, userId, iat) ==
  [wellFormed |-> wellFormed, secret |-> secret, id |-> userId,
   exp |-> iat + TOKEN_LIFETIME]

\* jwt.verify(token, JWT_SECRET, callback): the callback receives an error for
\* a text that is no token, for a signature made with another secret, and
\* from the second the token expires
JwtVerify(token) ==
  /\ token.wellFormed
  /\ token.secret = "JWT_SECRET"
  /\ token.exp > clock \div 1000

\* authHeader && authHeader.split(' ')[1]
TokenOf(authHeader) == IF Len(authHeader) >= 2 THEN <<authHeader[2]>> ELSE <<>>

\* the request carries a token that verifies
Verifies(r) ==
  TokenOf(r.authorization) # <<>> /\ JwtVerify(TokenOf(r.authorization)[1])

Endpoints == {"/api/auth/me", "/api/models", "/api/generate", "/api/generate/stream"}

IsGenerate(r) == r.endpoint \in {"/api/generate", "/api/generate/stream"}

\* the Authorization headers: none, a scheme alone, and the scheme with a
\* text that is no token, with a token signed with another secret, with a
\* token of the server, and with a token of the server for a user it does
\* not know
AuthorizationHeaders ==
  { <<>>, <<"Bearer">> }
    \cup { <<"Bearer", t>> : t \in { Jwt(FALSE, "JWT_SECRET", 1, 0),
                                     Jwt(TRUE, "other", 1, 0),
                                     Jwt(TRUE, "JWT_SECRET", 1, 0),
                                     Jwt(TRUE, "JWT_SECRET", 2, 0) } }

\* the moments a request arrives, in ms: when the token is issued, in the
\* last millisecond of its life and in the first after it
Arrivals == {0, TOKEN_LIFETIME * 1000 - 1, TOKEN_LIFETIME * 1000}

nonGuardVars == <<streamVars, storeVars, appVars, serverVars, evictionVars,
                  heartbeatVars, buildVars, ladderVars>>

\* authenticateToken, the first middleware of every protected route
AuthenticateToken ==
  /\ guardPc = "received"
  /\ IF TokenOf(req.authorization) = <<>>
     THEN guardStatus' = 401 /\ guardPc' = "answered"
     ELSE IF ~JwtVerify(TokenOf(req.authorization)[1])
     THEN guardStatus' = 403 /\ guardPc' = "answered"
     ELSE guardStatus' = guardStatus /\ guardPc' = "authenticated"
  /\ UNCHANGED <<req, stored, upstreamCalls>>
  /\ UNCHANGED nonGuardVars

\* upload.array('images', 5), the second middleware of the generate routes
UploadArray ==
  /\ guardPc = "authenticated" /\ IsGenerate(req)
  /\ stored' = { FilePaths(req.files)[n] : n \in 1..req.files }
  /\ guardPc' = "handling"
  /\ UNCHANGED <<req, guardStatus, upstreamCalls>>
  /\ UNCHANGED nonGuardVars

\* the handlers of GET /api/auth/me and GET /api/models
AnswerQuery ==
  /\ guardPc = "authenticated" /\ ~IsGenerate(req)
  /\ guardStatus' = IF req.endpoint = "/api/auth/me"
                       /\ TokenOf(req.authorization)[1].id # 1
                    THEN 404 ELSE 200
  /\ guardPc' = "answered"
  /\ UNCHANGED <<req, stored, upstreamCalls>>
  /\ UNCHANGED nonGuardVars

\* the handlers of the generate routes up to their call of the model
CallUpstream ==
  /\ guardPc = "handling"
  /\ upstreamCalls' = upstreamCalls + 1
  /\ guardPc' = "calling"
  /\ UNCHANGED <<req, guardStatus, stored>>
  /\ UNCHANGED nonGuardVars

\* and from the answer of the model on: the files are deleted
AnswerGenerate(ok) ==
  /\ guardPc = "calling"
  /\ stored' = {}
  /\ guardStatus' = IF ok THEN 200 ELSE 500
  /\ guardPc' = "answered"
  /\ UNCHANGED <<req, upstreamCalls>>
  /\ UNCHANGED nonGuardVars

InitGuard ==
  /\ HeartbeatIdle /\ StoreIdle /\ AppIdle /\ StreamIdle /\ BuildIdle /\ LadderIdle
  /\ GenerateIdle /\ ProxyIdle
  /\ failedLoginAttempts = <<>> /\ comparing = <<>>
  /\ lastLogin = NoLogin /\ lockout = NoLockout
  /\ clock \in Arrivals
  /\ \E e \in Endpoints, h \in AuthorizationHeaders, n \in 0..MaxUploads :
       req = [endpoint |-> e, authorization |-> h,
              files |-> IF e \in {"/api/generate", "/api/generate/stream"}
                        THEN n ELSE 0]
  /\ guardPc = "received" /\ guardStatus = 0
  /\ stored = {} /\ upstreamCalls = 0

NextGuard ==
  \/ AuthenticateToken
  \/ UploadArray
  \/ AnswerQuery
  \/ CallUpstream
  \/ \E ok \in BOOLEAN : AnswerGenerate(ok)

SpecGuard == InitGuard /\ [][NextGuard]_vars

\* C26: a request whose token does not verify never gets past the guard: no
\* file of it is stored, no call of the model is made for it, and the answer
\* it gets is the unauthorized one, status 401.
C26_OnlyVerifiedTokensPass ==
  ~Verifies(req)
    => /\ guardPc \in {"received", "answered"}
       /\ stored = {} /\ upstreamCalls = 0
       /\ guardPc = "answered" => guardStatus = 401


\* ------------------------------------ the request handed to the generative model

MaxHistory == 2

Base64Alphabet ==
  <<"A", "B", "C", "D", "E", "F", "G", "H", "I", "J", "K", "L", "M", "N", "O", "P",
     "Q", "R", "S", "T", "U", "V", "W", "X", "Y", "Z", "a", "b", "c", "d", "e", "f",
     "g", "h", "i", "j", "k", "l", "m", "n", "o", "p", "q", "r", "s", "t", "u", "v",
     "w", "x", "y", "z", "0", "1", "2", "3", "4", "5", "6", "7", "8", "9", "+", "/">>

\* Buffer.prototype.toString('base64')
RECURSIVE Base64(_)
Base64(bytes) ==
  IF bytes = <<>> THEN <<>>
  ELSE LET n  == Len(bytes)
           b1 == bytes[1]
           b2 == IF n >= 2 THEN bytes[2] ELSE 0
           b3 == IF n >= 3 THEN bytes[3] ELSE 0
       IN <<Base64Alphabet[(b1 \div 4) + 1],
            Base64Alphabet[((b1 % 4) * 16) + (b2 \div 16) + 1]>>
          \o (IF n >= 2 THEN <<Base64Alphabet[((b2 % 16) * 4) + (b3 \div 64) + 1]>>
                        ELSE <<"=">>)
          \o (IF n >= 3 THEN <<Base64Alphabet[(b3 % 64) + 1]>> ELSE <<"=">>)
          \o (IF n > 3 THEN Base64(SubSeq(bytes, 4, n)) ELSE <<>>)

\* the parts of an entry of contents: { text } and { inlineData }
RequestText(t) == [text |-> t, inlineData |-> NoImage]
RequestImage(data, mimeType) ==
  [text |-> <<>>, inlineData |-> [data |-> data, mimeType |-> mimeType]]

\* the parts of one history message: its text if it has any, then its images
HistoryParts(msg) ==
  (IF msg.content # <<>> THEN <<RequestText(msg.content)>> ELSE <<>>)
  \o [i \in 1..Len(msg.images) |->
        RequestImage(msg.images[i].data, msg.images[i].mimeType)]

\* UpstreamRole with every role passed on as it is
UpstreamRoleMutant(role) == role

\* msg.role === 'user' ? 'user' : 'model'
UpstreamRole(role) == IF role = "user" THEN "user" ELSE "model"

\* for (let i = 0; i < history.length; i++): contents.push for the messages
\* that have parts
RECURSIVE HistoryContents(_)
HistoryContents(history) ==
  IF history = <<>> THEN <<>>
  ELSE LET parts == HistoryParts(Head(history))
       IN (IF Len(parts) > 0
             THEN <<[role |-> UpstreamRole(Head(history).role), parts |-> parts]>>
             ELSE <<>>)
          \o HistoryContents(Tail(history))

\* currentParts: the prompt, then every file of the request read and encoded
CurrentParts(prompt, files) ==
  <<RequestText(prompt)>>
  \o [i \in 1..Len(files) |-> RequestImage(Base64(files[i].bytes), files[i].mimetype)]

BuildContents(history, prompt, files) ==
  HistoryContents(history) \o <<[role |-> "user", parts |-> CurrentParts(prompt, files)]>>

\* the ids of the models the server lists, cut into words
Gemini3Pro         == <<"gemini", "-", "3", "-", "pro", "-", "preview">>
Gemini3ProImage    == <<"gemini", "-", "3", "-", "pro", "-", "image", "-", "preview">>
Gemini25Flash      == <<"gemini", "-", "2.5", "-", "flash">>
Gemini25FlashImage == <<"gemini", "-", "2.5", "-", "flash", "-", "image">>

ModelIds == {Gemini3Pro, Gemini3ProImage, Gemini25Flash, Gemini25FlashImage}

\* String.prototype.includes
Includes(str, sub) ==
  \E i \in 0..(Len(str) - Len(sub)) : SubSeq(str, i + 1, i + Len(sub)) = sub

isImageModel(modelId) ==
  Includes(modelId, <<"image">>) \/ modelId = Gemini25FlashImage

isGemini3(modelId) ==
  Includes(modelId, <<"gemini", "-", "3">>) \/ Includes(modelId, <<"3", "-", "pro">>)

\* a field of the multipart form is a string or undefined
Undefined == "undefined"

shouldIncludeThoughts(includeThoughts) == includeThoughts \in {"true", "1"}

\* supportsThinking with every model taken to support thinking
supportsThinkingMutant(modelId) == TRUE

supportsThinking(modelId) == ~isImageModel(modelId) \/ modelId = Gemini3ProImage

\* parseInt of a string of decimal digits
RECURSIVE parseInt(_)
parseInt(digits) ==
  IF digits = <<>> THEN 0
  ELSE 10 * parseInt(SubSeq(digits, 1, Len(digits) - 1))
       + (CHOOSE d \in 0..9 : ToString(d) = digits[Len(digits)])

NoThinkingConfig == [includeThoughts |-> FALSE]       \* thinkingConfig = null

thinkingConfig(modelId, includeThoughts, thinkingLevel, thinkingBudget) ==
  IF shouldIncludeThoughts(includeThoughts) /\ supportsThinking(modelId)
  THEN IF isGemini3(modelId)
       THEN IF modelId = Gemini3ProImage
            THEN [includeThoughts |-> TRUE]
            ELSE [thinkingLevel |-> IF thinkingLevel # Undefined THEN thinkingLevel
                                    ELSE "high",
                  includeThoughts |-> TRUE]
       ELSE [thinkingBudget |-> IF thinkingBudget # Undefined
                                THEN parseInt(thinkingBudget) ELSE -1,
             includeThoughts |-> TRUE]
  ELSE NoThinkingConfig

nonBuildVars == <<streamVars, storeVars, appVars, serverVars, evictionVars,
                  heartbeatVars, guardVars, ladderVars>>

\* POST /api/generate/stream from the prompt check to the call of
\* model.generateContentStream({ contents, generationConfig })
BuildRequest ==
  /\ buildPc = "received"
  /\ IF PromptMissing(reqBody.prompt)
     THEN buildPc' = "rejected" /\ callArgs' = callArgs
     ELSE /\ buildPc' = "calling"
          /\ callArgs' =
               [contents |-> BuildContents(ServerHistory(reqBody), reqBody.prompt,
                                           reqUploads),
                thinkingConfig |->
                  thinkingConfig(reqBody.modelId, reqBody.includeThoughts,
                                 reqBody.thinkingLevel, reqBody.thinkingBudget)]
  /\ UNCHANGED <<reqBody, reqUploads>>
  /\ UNCHANGED nonBuildVars

\* the messages a history is made of: with or without text, images and
\* thinking, from the user, the assistant and a third role
HistoryImage(d) == [data |-> <<d>>, mimeType |-> <<"m">>]

HistoryMessages ==
  { UserMessage(<<"q">>),
    [UserMessage(<<"q">>) EXCEPT !.images = <<HistoryImage("1")>>],
    UserMessage(<<>>),
    AssistantMessage(<<"o", "k">>, <<>>, <<"t">>),
    AssistantMessage(<<>>, <<HistoryImage("1"), HistoryImage("2")>>, <<>>),
    AssistantMessage(<<>>, <<>>, <<"t">>),
    [UserMessage(<<"s">>) EXCEPT !.role = "system"] }

\* the files of a request: their bytes and the type multer reports
Attachments(n) ==
  [i \in 1..n |-> IF i % 2 = 1
                  THEN [bytes |-> <<137, 80, 78, 71>>, mimetype |-> <<"p", "n", "g">>]
                  ELSE [bytes |-> <<255, 216>>, mimetype |-> <<"j", "p", "g">>]]

InitBuild ==
  /\ HeartbeatIdle /\ GuardIdle /\ StoreIdle /\ AppIdle /\ StreamIdle /\ ServerIdle
  /\ LadderIdle
  /\ \E h \in SeqsUpTo(HistoryMessages, MaxHistory), p \in {<<>>, Prompt},
        id \in ModelIds, it \in {Undefined, "true", "false", "1"},
        tl \in {Undefined, "low"}, tb \in {Undefined, <<"1", "2", "8">>} :
       reqBody = [prompt |-> p, history |-> FormHistory(h), modelId |-> id,
                  includeThoughts |-> it, thinkingLevel |-> tl,
                  thinkingBudget |-> tb]
  /\ \E n \in 0..MaxFiles : reqUploads = Attachments(n)
  /\ buildPc = "received" /\ callArgs = NoArgs

NextBuild == BuildRequest

SpecBuild == InitBuild /\ [][NextBuild]_vars

\* the history messages that have text or at least one image
WithTextOrImage(history) ==
  SelectSeq(history, LAMBDA msg : msg.content # <<>> \/ Len(msg.images) > 0)

\* no text part of the contents is the thinking of a history message
NoThinkingSent ==
  \A i \in DOMAIN callArgs.contents : \A j \in DOMAIN callArgs.contents[i].parts :
     \A k \in DOMAIN ServerHistory(reqBody) :
        ServerHistory(reqBody)[k].thinking # <<>>
          => callArgs.contents[i].parts[j].text # ServerHistory(reqBody)[k].thinking

ImageModels == {Gemini3ProImage, Gemini25FlashImage}

\* C28: the call carries a thinkingConfig exactly when includeThoughts was
\* requested and the model is no image model or is gemini-3-pro-image-preview;
\* and a request is rejected for its missing prompt only, never for its
\* thinking options.
C28_ThinkingGate ==
  /\ buildPc = "calling" =>
       (callArgs.thinkingConfig # NoThinkingConfig
          <=> /\ reqBody.includeThoughts \in {"true", "1"}
              /\ (reqBody.modelId \notin ImageModels
                    \/ reqBody.modelId = Gemini3ProImage))
  /\ buildPc = "rejected" => reqBody.prompt = <<>>

\* thinking requested from gemini-2.5-flash-image: the call is made without
\* a thinkingConfig
C28_Witness ==
  /\ buildPc = "calling"
  /\ reqBody.modelId = Gemini25FlashImage /\ reqBody.includeThoughts = "true"
  /\ callArgs.thinkingConfig = NoThinkingConfig


\* ------------------------------------- the stream endpoint: rejection, cancellation

ChunksWritten == Len(SelectSeq(resBody, LAMBDA k : k = "chunk"))

MAX_CONVERSATIONS == 50
MAX_STORAGE_SIZE == 4 * 1024 * 1024

MaxOver == 1    \* the conversations of the argument beyond MAX_CONVERSATIONS

\* the base64 data of an attached image, and the bytes it takes in the JSON
LsImageData == <<"I", "M", "G">>
LsImageBytes == 100 * 1024

\* the bytes of a conversation's JSON apart from the data of its images
LsTextBytes == 1024

\* `[图片${index + 1}数据已移除]`, and the bytes of its UTF-8 form
Placeholder(index) == <<"[", ToString(index + 1), "]">>
PlaceholderBytes == 24

LsImage(data) == [data |-> data, mimeType |-> <<"p", "n", "g">>]

\* a message without images, which JSON.stringify writes without that key
LsText == [role |-> "user", content |-> <<"m">>]

LsMessage(images) == [role |-> "user", content |-> <<"m">>, images |-> images]

LsConversation(id, updatedAt, msgs) ==
  [id |-> id, updatedAt |-> updatedAt, messages |-> msgs]

\* [...conversations].sort((a, b) => b.updatedAt - a.updatedAt): the sort is
\* stable, so the place of an element is the number of those that are newer
\* or as new and ahead of it
SortByUpdatedAt(convs) ==
  LET n == Len(convs)
      Ahead(i) == { j \in 1..n : \/ convs[j].updatedAt > convs[i].updatedAt
                                 \/ /\ convs[j].updatedAt = convs[i].updatedAt
                                    /\ j < i }
      place == [i \in 1..n |-> Cardinality(Ahead(i)) + 1]
  IN  [k \in 1..n |-> convs[CHOOSE i \in 1..n : place[i] = k]]

\* Array.prototype.slice(0, end)
SliceTo(list, end) == SubSeq(list, 1, Min(end, Len(list)))

trimConversationsMutant(convs) == SliceTo(convs, MAX_CONVERSATIONS)

\* trimConversations
trimConversations(convs) == SliceTo(SortByUpdatedAt(convs), MAX_CONVERSATIONS)

\* compressConversation(conv, true)
compressConversation(conv) ==
  [conv EXCEPT !.messages =
     [m \in DOMAIN conv.messages |->
        IF "images" \in DOMAIN conv.messages[m]
        THEN [conv.messages[m] EXCEPT !.images =
                [i \in DOMAIN @ |->
                   [mimeType |-> @[i].mimeType, data |-> Placeholder(i - 1)]]]
        ELSE conv.messages[m]]]

Compressed(list) == [i \in DOMAIN list |-> compressConversation(list[i])]

ImagesBytes(msg) ==
  IF "images" \in DOMAIN msg
  THEN SumOf([i \in DOMAIN msg.images |->
                IF msg.images[i].data = LsImageData THEN LsImageBytes
                ELSE PlaceholderBytes])
  ELSE 0

\* getStorageSize(JSON.stringify(list))
getStorageSize(list) ==
  2 + SumOf([i \in DOMAIN list |->
               LsTextBytes
               + SumOf([m \in DOMAIN list[i].messages |->
                          ImagesBytes(list[i].messages[m])])])

\* localStorage.setItem(STORAGE_KEY, JSON.stringify(list)) throws
\* QuotaExceededError
QuotaExceeded(list) == getStorageSize(list) > lsQuota

Item(list) == [present |-> TRUE, value |-> list]

\* the try block of saveConversations, up to the value it hands to setItem
FirstValue(convs) ==
  LET trimmed == trimConversations(convs)
      reduced == SliceTo(trimmed, (MAX_CONVERSATIONS * 7) \div 10)
  IN  IF getStorageSize(trimmed) > MAX_STORAGE_SIZE
      THEN IF getStorageSize(reduced) > MAX_STORAGE_SIZE
           THEN Compressed(reduced)
           ELSE reduced
      ELSE trimmed

\* one localStorage.setItem of the ladder: on success the call is over, on an
\* error the next rung is tried
SetItem(list, warning, next) ==
  /\ lsAttempts' = Append(lsAttempts, list)
  /\ IF QuotaExceeded(list) \/ lsDenied
     THEN /\ lsPc' = next
          /\ UNCHANGED <<localStorage, lsConsole>>
     ELSE /\ localStorage' = Item(list)
          /\ lsConsole' = Append(lsConsole, warning)
          /\ lsPc' = "done"

\* saveConversations(conversations), to its first setItem: an error that is
\* no quota error is logged and ends the call
SaveFirst ==
  /\ lsPc = "called"
  /\ \E list \in {FirstValue(lsConversations)} :
       /\ lsAttempts' = Append(lsAttempts, list)
       /\ IF lsDenied
          THEN /\ lsPc' = "done"
               /\ lsConsole' = Append(lsConsole, "error: save failed")
               /\ UNCHANGED localStorage
          ELSE IF QuotaExceeded(list)
          THEN /\ lsPc' = "retry30"
               /\ lsConsole' = Append(lsConsole, "error: quota")
               /\ UNCHANGED localStorage
          ELSE /\ localStorage' = Item(list)
               /\ lsConsole' = IF Len(list) < Len(lsConversations)
                                THEN Append(lsConsole, "warn: trimmed")
                                ELSE lsConsole
               /\ lsPc' = "done"
  /\ UNCHANGED <<lsConversations, lsQuota, lsDenied>>
  /\ UNCHANGED <<streamVars, storeVars, appVars, serverVars, evictionVars,
                 heartbeatVars, guardVars, buildVars>>

\* the first retry: the 30 newest, with their images
Retry30 ==
  /\ lsPc = "retry30"
  /\ SetItem(SliceTo(trimConversations(lsConversations), 30), "warn: kept 30",
             "retry20")
  /\ UNCHANGED <<lsConversations, lsQuota, lsDenied>>
  /\ UNCHANGED <<streamVars, storeVars, appVars, serverVars, evictionVars,
                 heartbeatVars, guardVars, buildVars>>

\* the second retry: the 20 newest, without the data of their images
Retry20 ==
  /\ lsPc = "retry20"
  /\ SetItem(Compressed(SliceTo(trimConversations(lsConversations), 20)),
             "warn: kept 20", "retry10")
  /\ UNCHANGED <<lsConversations, lsQuota, lsDenied>>
  /\ UNCHANGED <<streamVars, storeVars, appVars, serverVars, evictionVars,
                 heartbeatVars, guardVars, buildVars>>

\* the last retry: conversations.sort(...) sorts the array of the caller in
\* place, and the 10 newest are kept without the data of their images
Retry10 ==
  /\ lsPc = "retry10"
  /\ \E sorted \in {SortByUpdatedAt(lsConversations)} :
       /\ lsConversations' = sorted
       /\ SetItem(Compressed(SliceTo(sorted, 10)), "warn: kept 10", "clear")
  /\ UNCHANGED <<lsQuota, lsDenied>>
  /\ UNCHANGED <<streamVars, storeVars, appVars, serverVars, evictionVars,
                 heartbeatVars, guardVars, buildVars>>

\* localStorage.removeItem(STORAGE_KEY) and its console.warn
ClearAll ==
  /\ lsPc = "clear"
  /\ localStorage' = NoItem
  /\ lsConsole' = Append(lsConsole, "warn: cleared, start again")
  /\ lsPc' = "done"
  /\ UNCHANGED <<lsConversations, lsQuota, lsDenied, lsAttempts>>
  /\ UNCHANGED <<streamVars, storeVars, appVars, serverVars, evictionVars,
                 heartbeatVars, guardVars, buildVars>>

\* the lengths of the argument, around every rung of the ladder
LsCounts == {0, 10, 11, 21, 31, 36, MAX_CONVERSATIONS + MaxOver}

\* updatedAt of the i-th of n conversations: oldest first, newest first, or
\* equal in pairs
UpdatedAt(order, i, n) ==
  CASE order = "oldest first" -> i
    [] order = "newest first" -> n - i + 1
    [] order = "pairs" -> (i + 1) \div 2

\* the messages of the i-th conversation: text only, an image each, or two
\* images on the last alone
MessagesOf(pattern, i, n) ==
  CASE pattern = "none" -> <<LsText>>
    [] pattern = "each" -> <<LsText, LsMessage(<<LsImage(LsImageData)>>)>>
    [] pattern = "last" ->
         IF i = n
         THEN <<LsMessage(<<LsImage(LsImageData), LsImage(LsImageData)>>)>>
         ELSE <<LsMessage(<<>>)>>

LsArgument(n, order, pattern) ==
  [i \in 1..n |-> LsConversation(i, UpdatedAt(order, i, n), MessagesOf(pattern, i, n))]

\* the room STORAGE_KEY has: all of a browser's 5 MB down to almost none
Quotas == {5 * 1024 * 1024, 3300 * 1024, 40 * 1024, 25 * 1024, 15 * 1024, 5 * 1024}

InitLadder ==
  /\ HeartbeatIdle /\ GuardIdle /\ BuildIdle /\ StoreIdle /\ AppIdle /\ StreamIdle
  /\ ServerIdle
  /\ \E n \in LsCounts, order \in {"oldest first", "newest first", "pairs"},
        pattern \in {"none", "each", "last"} :
       lsConversations = LsArgument(n, order, pattern)
  /\ lsQuota \in Quotas /\ lsDenied \in BOOLEAN
  /\ localStorage = Item(<<>>) /\ lsPc = "called" /\ lsAttempts = <<>>
  /\ lsConsole = <<>>

NextLadder == SaveFirst \/ Retry30 \/ Retry20 \/ Retry10 \/ ClearAll

SpecLadder == InitLadder /\ [][NextLadder]_vars


\* the conversations of the argument
Given == { lsConversations[i] : i \in DOMAIN lsConversations }

\* list holds the k most recently updated conversations of the argument,
\* the newest first
MostRecent(list, k) ==
  /\ Len(list) = Min(k, Len(lsConversations))
  /\ \A i, j \in DOMAIN list :
       i < j => /\ list[i].id # list[j].id
                /\ list[i].updatedAt >= list[j].updatedAt
  /\ \A i \in DOMAIN list :
       \E c \in Given : c.id = list[i].id /\ c.updatedAt = list[i].updatedAt
  /\ \A c \in Given :
       (\A i \in DOMAIN list : list[i].id # c.id)
         => \A i \in DOMAIN list : list[i].updatedAt >= c.updatedAt

\* the conversations of list are kept as they were given
WithImageData(list) == \A i \in DOMAIN list : list[i] \in Given

\* message m is message g without the data of its images
IsStripped(m, g) ==
  /\ m.role = g.role /\ m.content = g.content
  /\ ("images" \in DOMAIN m) = ("images" \in DOMAIN g)
  /\ "images" \in DOMAIN g
       => /\ Len(m.images) = Len(g.images)
          /\ \A i \in DOMAIN g.images :
               /\ m.images[i].mimeType = g.images[i].mimeType
               /\ m.images[i].data # LsImageData

\* the conversations of list are given ones without the data of their images
WithoutImageData(list) ==
  \A i \in DOMAIN list :
    \E c \in Given :
      /\ c.id = list[i].id /\ Len(c.messages) = Len(list[i].messages)
      /\ \A m \in DOMAIN c.messages : IsStripped(list[i].messages[m], c.messages[m])

\* the n-th setItem of the call was made and met the quota
Failed(n) == n \in DOMAIN lsAttempts /\ getStorageSize(lsAttempts[n]) > lsQuota

\* the save of the try block met the quota
QuotaHit == ~lsDenied /\ Failed(1)

Warned(text) == \E i \in DOMAIN lsConsole : lsConsole[i] = text

C32_AttemptEndsIdle ==
  TurnOver => (~loading /\ ~isStreaming)


\* -------------------------------------------------- the login: concurrency

\* C33: whatever the order in which concurrent login requests run, at most
\* MAX_ATTEMPTS of the recorded failures are younger than ten minutes.
C33_AtMostFiveFailuresInWindow ==
  Young(failedLoginAttempts, clock) <= MAX_ATTEMPTS


\* what is left of a list of failures when those of ten minutes ago and
\* before are taken out
Unexpired(attempts, t) == SelectSeq(attempts, LAMBDA ts : t - ts < 10 * 60 * 1000)

\* C34: a login request answered 429 or 400, and any request that arrives
\* while five failures are in the window, leaves of the recorded failures
\* exactly those that have not expired: it records none.
C34_RejectedLoginRecordsNothing ==
  (/\ lastLogin.step = "arrived"
   /\ \/ lastLogin.status \in {429, 400}
      \/ Young(lastLogin.before, clock) >= 5)
    => failedLoginAttempts = Unexpired(lastLogin.before, clock)

\* a login with a wrong password during a lockout was answered 429 and the
\* five failures are as they were
C34_Witness ==
  /\ lastLogin.step = "arrived" /\ lastLogin.cred = "wrongPassword"
  /\ lastLogin.status = 429 /\ Len(lastLogin.before) = 5
  /\ failedLoginAttempts = lastLogin.before


\* ------------------------------------------------ the shape of a response

\* the index of the blank line that ends the first record of chars
RecordEnd(chars) ==
  CHOOSE i \in 1..(Len(chars) - 1) :
    /\ chars[i] = NL /\ chars[i + 1] = NL
    /\ \A j \in 1..(i - 1) : ~(chars[j] = NL /\ chars[j + 1] = NL)

\* a response body read back: the object of each `data: ...` record, in order
RECURSIVE RecordsOf(_)
RecordsOf(chars) ==
  IF chars = <<>> THEN <<>>
  ELSE \* the text between `data: ` and the blank line, parsed
       <<JsonParse(SubSeq(chars, Len(DataPrefix) + 1, RecordEnd(chars) - 1)).data>>
       \o RecordsOf(SubSeq(chars, RecordEnd(chars) + 2, Len(chars)))

KindOf(r) ==
  IF r.done THEN "done"
  ELSE IF r.error # <<>> THEN "error"
  ELSE IF r.hasImage THEN "image"
  ELSE IF r.thinking # <<>> THEN "thinking"
  ELSE "text"

\* the kinds of the records of the response written so far
WireKinds ==
  Only({ [i \in DOMAIN rs |-> KindOf(rs[i])] : rs \in {RecordsOf(TextDecoderDecode(wire))} })

\* the relay has finished a response on an open connection
RelayFinished == relayPc \in {"ended", "failed"}

\* kinds is (text | thinking)* image* done or (text | thinking)* error done
WellShaped(kinds) ==
  LET n == Len(kinds)
      At(kind) == { i \in 1..n : kinds[i] = kind }
  IN /\ n >= 1 /\ At("done") = {n}
     /\ Cardinality(At("error")) <= 1
     /\ At("error") \subseteq {n - 1}
     /\ At("error") # {} => At("image") = {}
     /\ \A i \in At("image") : \A j \in At("text") \cup At("thinking") : j < i

\* C35: a response the relay has finished on an open connection is text and
\* thinking records, then either the image records or one error record, then
\* the one done record, and nothing after it.
C35_ResponseShape ==
  RelayFinished => \E kinds \in {WireKinds} : WellShaped(kinds)

\* a finished response with a thinking record, a text record, an image
\* record and the done record
C35_Witness ==
  /\ relayPc = "ended"
  /\ \E kinds \in {WireKinds} :
       /\ Len(kinds) >= 4 /\ kinds[Len(kinds) - 1] = "image"
       /\ \E i, j \in DOMAIN kinds : kinds[i] = "thinking" /\ kinds[j] = "text"


\* --------------------------------------------- the order of text and thinking

Fragment(kind, text) == [kind |-> kind, text |-> text]

\* the text-bearing parts the upstream has sent, in the order of arrival
UpstreamFragments ==
  LET withText == SelectSeq(UpstreamParts, LAMBDA part : part.text # <<>>)
  IN  [i \in DOMAIN withText |->
         Fragment(IF withText[i].thought THEN "thinking" ELSE "text", withText[i].text)]

\* the text and thinking records written to the response, in order
WireFragments ==
  LET rs == SelectSeq(RecordsOf(TextDecoderDecode(wire)),
                      LAMBDA r : KindOf(r) \in {"text", "thinking"})
  IN  [i \in DOMAIN rs |->
         Fragment(KindOf(rs[i]), IF KindOf(rs[i]) = "thinking" THEN rs[i].thinking
                                 ELSE rs[i].text)]

\* fragments with every run of one kind joined into one
RECURSIVE Joined(_)
Joined(frags) ==
  IF Len(frags) <= 1 THEN frags
  ELSE IF frags[1].kind = frags[2].kind
  THEN Joined(<<Fragment(frags[1].kind, frags[1].text \o frags[2].text)>>
              \o SubSeq(frags, 3, Len(frags)))
  ELSE <<frags[1]>> \o Joined(Tail(frags))

\* C36: the text and the thinking written to the response follow each other
\* as the parts they come from arrived from upstream, parts of one chunk
\* included.
C36_UpstreamOrderPreserved ==
  Joined(WireFragments) = Joined(UpstreamFragments)


\* ------------------------------------------------------------ the heartbeat

\* a heartbeat line is written in this step
HeartbeatWritten ==
  /\ Len(resBody') = Len(resBody) + 1
  /\ resBody'[Len(resBody')] = "heartbeat"

====
